---- MODULE Spec2Model ----
(***************************************************************************)
(* Model of the mcp-polymarket adapter: the configuration resolver         *)
(* (src/config.ts), the venue client wrapper (src/client.ts), the server   *)
(* entry point (src/index.ts), the registrar (tools/index.ts) and the tool *)
(* handlers (src/tools/*.ts).                                              *)
(*                                                                         *)
(* Strings are sequences of one-character strings, so that conversions     *)
(* (toLowerCase, parseInt) are computed character by character.  An        *)
(* optional value (T | undefined, T | null) is the value Absent or a       *)
(* sequence of length at most one.                                         *)
(***************************************************************************)
EXTENDS Integers, Sequences, FiniteSets, TLC

\* ------------------------------------------------------------------------
\* Strings and JavaScript primitives
\* ------------------------------------------------------------------------

\* `undefined` for a string-valued environment variable or option
Absent == <<"undefined">>

\* JavaScript truthiness of a `string | undefined`
Truthy(v) == v # Absent /\ v # <<>>

\* One character of String.prototype.toLowerCase
LowerChar(c) ==
  CASE c = "T" -> "t"
    [] c = "R" -> "r"
    [] c = "U" -> "u"
    [] c = "E" -> "e"
    [] c = "Y" -> "y"
    [] c = "S" -> "s"
    [] c = "F" -> "f"
    [] c = "A" -> "a"
    [] c = "L" -> "l"
    [] OTHER -> c

\* String.prototype.toLowerCase
ToLowerCase(s) == [i \in 1..Len(s) |-> LowerChar(s[i])]

\* A JavaScript number: a finite integer, NaN, or undefined (for options)
Num(n) == [kind |-> "num", n |-> n]
NaN == [kind |-> "nan", n |-> 0]
UndefNum == [kind |-> "undefined", n |-> 0]

\* JavaScript truthiness of a `number | undefined`
TruthyNum(x) == x.kind = "num" /\ x.n # 0

DigitChars == {"0", "1", "2", "3", "4", "5", "6", "7", "8", "9"}

DigitVal(c) ==
  CASE c = "0" -> 0 [] c = "1" -> 1 [] c = "2" -> 2 [] c = "3" -> 3
    [] c = "4" -> 4 [] c = "5" -> 5 [] c = "6" -> 6 [] c = "7" -> 7
    [] c = "8" -> 8 [] c = "9" -> 9 [] OTHER -> 0

\* Length of the longest prefix of s (from position i) made of digits
RECURSIVE DigitRun(_, _)
DigitRun(s, i) ==
  IF i > Len(s) \/ s[i] \notin DigitChars THEN 0 ELSE 1 + DigitRun(s, i + 1)

\* Value of the digits s[i..j]
RECURSIVE DigitsValue(_, _, _)
DigitsValue(s, i, j) ==
  IF j < i THEN 0 ELSE 10 * DigitsValue(s, i, j - 1) + DigitVal(s[j])

\* Number of leading blanks of s from position i
RECURSIVE BlankRun(_, _)
BlankRun(s, i) ==
  IF i > Len(s) \/ s[i] # " " THEN 0 ELSE 1 + BlankRun(s, i + 1)

\* parseInt(s, 10): skip leading blanks, an optional sign, then the longest
\* run of digits; NaN when there is no digit
ParseInt(s) ==
  LET b == BlankRun(s, 1)
      signed == b + 1 <= Len(s) /\ s[b + 1] \in {"-", "+"}
      start == IF signed THEN b + 2 ELSE b + 1
      run == DigitRun(s, start)
      mag == DigitsValue(s, start, start + run - 1)
  IN  IF run = 0 THEN NaN
      ELSE IF signed /\ s[b + 1] = "-" THEN Num(0 - mag) ELSE Num(mag)

\* ------------------------------------------------------------------------
\* Signing keys (ethers Wallet, a black-box collaborator)
\* ------------------------------------------------------------------------

GoodKey == <<"k">>
OtherKey == <<"j">>
BadKey == <<"z">>

\* new Wallet(privateKey) throws on a malformed key
KeyValid(k) == k \in {GoodKey, OtherKey}

\* wallet.address of a well-formed key
WalletAddress(k) == IF k = GoodKey THEN <<"a">> ELSE <<"b">>

\* ------------------------------------------------------------------------
\* Configuration resolver (src/config.ts)
\* ------------------------------------------------------------------------

EnvNames == {"POLYMARKET_PRIVATE_KEY", "POLYMARKET_FUNDER", "POLYMARKET_CHAIN_ID",
             "POLYMARKET_READONLY", "POLYMARKET_API_KEY", "POLYMARKET_API_SECRET",
             "POLYMARKET_PASSPHRASE"}

\* Result of a call that returned v
Ok(v) == [ok |-> TRUE, err |-> "none", val |-> <<v>>]

\* Result of a call that threw error e
Threw(e) == [ok |-> FALSE, err |-> e, val |-> <<>>]

\* getEnvVar that treats only an unset variable as missing
getEnvVarUndefinedOnly(e, name, required) ==
  IF required /\ e[name] = Absent
  THEN Threw("MissingCredential")
  ELSE Ok(e[name])

\* getEnvVar(name, required) on environment e
getEnvVar(e, name, required) ==
  IF required /\ ~Truthy(e[name])
  THEN Threw("MissingCredential")
  ELSE Ok(e[name])

\* deriveAddressFromPrivateKey(privateKey)
deriveAddressFromPrivateKey(privateKey) ==
  IF KeyValid(privateKey) THEN Ok(WalletAddress(privateKey)) ELSE Threw("InvalidKey")

DefaultChainId == 137

\* The readonly flag compared without toLowerCase
ReadonlyFlagCaseSensitive(v) == v = <<"t", "r", "u", "e">>

\* The readonly flag of loadConfig:
\* getEnvVar("POLYMARKET_READONLY")?.toLowerCase() === "true"
ReadonlyFlag(v) == v # Absent /\ ToLowerCase(v) = <<"t", "r", "u", "e">>

\* loadConfig() on environment e
loadConfig(e) ==
  LET pk == getEnvVar(e, "POLYMARKET_PRIVATE_KEY", TRUE)
      fEnv == getEnvVar(e, "POLYMARKET_FUNDER", FALSE).val[1]
      cEnv == getEnvVar(e, "POLYMARKET_CHAIN_ID", FALSE).val[1]
      rEnv == getEnvVar(e, "POLYMARKET_READONLY", FALSE).val[1]
  IN  IF ~pk.ok THEN pk
      ELSE LET privateKey == pk.val[1]
               derived == deriveAddressFromPrivateKey(privateKey)
           IN  IF ~Truthy(fEnv) /\ ~derived.ok THEN derived
               ELSE Ok([privateKey |-> privateKey,
                        apiKey |-> getEnvVar(e, "POLYMARKET_API_KEY", FALSE).val[1],
                        apiSecret |-> getEnvVar(e, "POLYMARKET_API_SECRET", FALSE).val[1],
                        passphrase |-> getEnvVar(e, "POLYMARKET_PASSPHRASE", FALSE).val[1],
                        funder |-> IF Truthy(fEnv) THEN fEnv ELSE derived.val[1],
                        chainId |-> ParseInt(IF Truthy(cEnv) THEN cEnv
                                             ELSE <<"1", "3", "7">>),
                        readonly |-> ReadonlyFlag(rEnv)])

\* createConfig(options)
createConfig(options) ==
  LET privateKey == options.privateKey
      derived == deriveAddressFromPrivateKey(privateKey)
  IN  IF ~Truthy(privateKey) THEN Threw("MissingCredential")
      ELSE IF ~Truthy(options.funder) /\ ~derived.ok THEN derived
      ELSE Ok([privateKey |-> privateKey,
               funder |-> IF Truthy(options.funder) THEN options.funder
                          ELSE derived.val[1],
               apiKey |-> options.apiKey,
               apiSecret |-> options.apiSecret,
               passphrase |-> options.passphrase,
               chainId |-> IF TruthyNum(options.chainId) THEN options.chainId
                           ELSE Num(DefaultChainId),
               readonly |-> (options.readonly = "true")])

\* getConfig that resolves the environment anew on every call
getConfigReload(cached, e) ==
  LET r == loadConfig(e)
  IN  [res |-> r, cached |-> IF r.ok THEN <<r.val[1]>> ELSE cached]

\* getConfig(): the memoized resolver.  cached is the module variable
\* cachedConfig (empty when null); yields the result and the new cachedConfig
getConfig(cached, e) ==
  IF cached # <<>> THEN [res |-> Ok(cached[1]), cached |-> cached]
  ELSE LET r == loadConfig(e)
       IN  [res |-> r, cached |-> IF r.ok THEN <<r.val[1]>> ELSE <<>>]

\* ------------------------------------------------------------------------
\* Venue client wrapper (src/client.ts)
\* ------------------------------------------------------------------------

\* new ClobClient(host, chainId, wallet, creds, signatureType, funder); id is
\* the identity of the constructed object
ClobClient(id, chainId, creds, signatureType, funder) ==
  [id |-> id, chainId |-> chainId, creds |-> creds,
   signatureType |-> signatureType, funder |-> funder]

\* new ClobClientWrapper(config): the client handle starts null
NewWrapper(config) == [config |-> config, client |-> <<>>]

\* signatureType chosen by initialize: 0 when the funder is the signer
SignatureType(config) ==
  IF ToLowerCase(config.funder) = ToLowerCase(WalletAddress(config.privateKey))
  THEN 0 ELSE 2

\* The branch condition of initialize testing the API key alone
HasProvidedCredsKeyOnly(config) == Truthy(config.apiKey)

\* The branch condition of initialize: all three API credentials are truthy
HasProvidedCreds(config) ==
  Truthy(config.apiKey) /\ Truthy(config.apiSecret) /\ Truthy(config.passphrase)

\* The credentials object handed to the client in the provided branch
ProvidedCreds(config) ==
  <<config.apiKey, config.apiSecret, config.passphrase>>

\* Credentials produced by a successful createOrDeriveApiKey
DerivedCreds == <<<<"d">>, <<"d">>, <<"d">>>>

\* No credentials (the temporary, unauthenticated client)
NoCreds == <<>>

\* initialize without its already-initialized guard
AlreadyInitializedNever(w) == FALSE

\* The guard at the top of initialize: skip when the handle is already set
AlreadyInitialized(w) == w.client # <<>>

\* initialize that publishes tempClient as the handle before awaiting the
\* credential derivation
InitializeBeginEager(w, fresh) ==
  IF w.client # <<>>
  THEN [pc |-> "skipped", self |-> w, temp |-> <<>>, built |-> 0, derive |-> 0]
  ELSE IF ~KeyValid(w.config.privateKey)
  THEN [pc |-> "failed", self |-> w, temp |-> <<>>, built |-> 0, derive |-> 0]
  ELSE LET c == ClobClient(fresh, w.config.chainId, <<>>, 0, w.config.funder)
       IN  [pc |-> "awaitDerive", self |-> [w EXCEPT !.client = <<c>>],
            temp |-> <<c>>, built |-> 1, derive |-> 1]

\* initialize(), from the call to its first await or its return.  fresh is
\* the identity the next constructed client gets.  pc: "skipped" (early
\* return), "failed" (new Wallet threw), "done" (returned), "awaitDerive"
\* (suspended in createOrDeriveApiKey with tempClient in temp)
InitializeBegin(w, fresh) ==
  IF AlreadyInitialized(w)
  THEN [pc |-> "skipped", self |-> w, temp |-> <<>>, built |-> 0, derive |-> 0]
  ELSE IF ~KeyValid(w.config.privateKey)
  THEN [pc |-> "failed", self |-> w, temp |-> <<>>, built |-> 0, derive |-> 0]
  ELSE IF HasProvidedCreds(w.config)
  THEN [pc |-> "done",
        self |-> [w EXCEPT !.client =
                    <<ClobClient(fresh, w.config.chainId, ProvidedCreds(w.config),
                                 SignatureType(w.config), w.config.funder)>>],
        temp |-> <<>>, built |-> 1, derive |-> 0]
  ELSE [pc |-> "awaitDerive", self |-> w,
        temp |-> <<ClobClient(fresh, w.config.chainId, NoCreds,
                              SignatureType(w.config), w.config.funder)>>,
        built |-> 1, derive |-> 1]

\* initialize whose catch drops the temporary client instead of keeping it
InitializeEndNoFallback(w, temp, derived, fresh) ==
  IF derived
  THEN [self |-> [w EXCEPT !.client =
                    <<ClobClient(fresh, w.config.chainId, DerivedCreds,
                                 SignatureType(w.config), w.config.funder)>>],
        built |-> 1]
  ELSE [self |-> w, built |-> 0]

\* initialize(), resumed after createOrDeriveApiKey settled: derived is TRUE
\* when it resolved, FALSE when it rejected (the catch keeps tempClient)
InitializeEnd(w, temp, derived, fresh) ==
  IF derived
  THEN [self |-> [w EXCEPT !.client =
                    <<ClobClient(fresh, w.config.chainId, DerivedCreds,
                                 SignatureType(w.config), w.config.funder)>>],
        built |-> 1]
  ELSE [self |-> [w EXCEPT !.client = temp], built |-> 0]

\* getClient()
getClient(w) ==
  IF w.client = <<>>
  THEN [res |-> Threw("NotInitialized"), self |-> w]
  ELSE [res |-> Ok(w.client[1]), self |-> w]

\* isReadonly()
isReadonly(w) == w.config.readonly

\* ensureWriteAccess that also insists on an initialized client
ensureWriteAccessNeedsClient(w) ==
  IF w.config.readonly \/ w.client = <<>>
  THEN [res |-> Threw("ReadonlyModeViolation"), self |-> w]
  ELSE [res |-> Ok(<<>>), self |-> w]

\* ensureWriteAccess()
ensureWriteAccess(w) ==
  IF w.config.readonly
  THEN [res |-> Threw("ReadonlyModeViolation"), self |-> w]
  ELSE [res |-> Ok(<<>>), self |-> w]

\* ------------------------------------------------------------------------
\* Tool input schemas (zod) and helpers (src/tools/*.ts)
\* ------------------------------------------------------------------------

\* Decimal digits kept after the point by ParseFloat
FracDigits == 3

RECURSIVE Pow10(_)
Pow10(k) == IF k = 0 THEN 1 ELSE 10 * Pow10(k - 1)

\* Value of the first k fraction digits of s starting at position i, in
\* units of 10^-FracDigits
RECURSIVE FracValue(_, _, _)
FracValue(s, i, k) ==
  IF k = 0 THEN 0
  ELSE FracValue(s, i, k - 1)
       + (IF k <= FracDigits THEN DigitVal(s[i + k - 1]) * Pow10(FracDigits - k) ELSE 0)

\* parseFloat(s): skip leading blanks, an optional sign, digits, an optional
\* point and digits; the longest such prefix is the value (in units of
\* 10^-FracDigits), NaN when it holds no digit
ParseFloat(s) ==
  LET b == BlankRun(s, 1)
      signed == b + 1 <= Len(s) /\ s[b + 1] \in {"-", "+"}
      start == IF signed THEN b + 2 ELSE b + 1
      ir == DigitRun(s, start)
      dot == start + ir <= Len(s) /\ s[start + ir] = "."
      fr == IF dot THEN DigitRun(s, start + ir + 1) ELSE 0
      mag == DigitsValue(s, start, start + ir - 1) * Pow10(FracDigits)
             + FracValue(s, start + ir + 1, fr)
  IN  IF s = Absent \/ ir + fr = 0 THEN NaN
      ELSE IF signed /\ s[b + 1] = "-" THEN Num(0 - mag) ELSE Num(mag)

\* z.string().min(1)
NonEmptyString(v) == v # Absent /\ Len(v) >= 1

\* The refinement of size and amount: parseFloat(val) is a number > 0
PositiveDecimal(v) ==
  v # Absent /\ LET num == ParseFloat(v) IN num.kind = "num" /\ num.n > 0

\* The refinement of price with both ends of the interval allowed
UnitDecimalClosed(v) ==
  v # Absent /\ LET num == ParseFloat(v)
                IN  num.kind = "num" /\ num.n >= 0 /\ num.n <= Pow10(FracDigits)

\* The refinement of price: parseFloat(val) is a number in (0, 1)
UnitDecimal(v) ==
  v # Absent /\ LET num == ParseFloat(v)
                IN  num.kind = "num" /\ num.n > 0 /\ num.n < Pow10(FracDigits)

\* z.number().min(lo).max(hi).optional()
OptionalNumberIn(x, lo, hi) ==
  x.kind = "undefined" \/ (x.kind = "num" /\ x.n >= lo /\ x.n <= hi)

\* z.number().min(lo).optional()
OptionalNumberMin(x, lo) ==
  x.kind = "undefined" \/ (x.kind = "num" /\ x.n >= lo)

PlaceOrderSchema(args) ==
  /\ NonEmptyString(args.token_id)
  /\ args.side \in {"BUY", "SELL"}
  /\ PositiveDecimal(args.size)
  /\ UnitDecimal(args.price)

PlaceMarketOrderSchema(args) ==
  /\ NonEmptyString(args.token_id)
  /\ args.side \in {"BUY", "SELL"}
  /\ PositiveDecimal(args.amount)
  /\ args.order_type \in {"undefined", "FOK", "FAK"}

CancelOrderSchema(args) == NonEmptyString(args.order_id)

GetTradesSchema(args) == OptionalNumberIn(args.limit, 1, 100)

GetOrderbookSchema(args) == NonEmptyString(args.token_id)

GetMarketsSchema(args) ==
  /\ OptionalNumberIn(args.limit, 1, 100)
  /\ OptionalNumberMin(args.offset, 0)

\* GetNewsSchema: query z.string().min(1), limit 1..10
GetNewsSchema(args) ==
  /\ NonEmptyString(args.query)
  /\ OptionalNumberIn(args.limit, 1, 10)

\* GetMarketSchema: three optional strings, nothing to reject
GetMarketSchema(args) == TRUE

\* GetPositionsSchema of the Data-API revision (limit 1..500); the
\* open-orders revision declares no input
GetPositionsSchema(args, rev) ==
  rev = 2 \/ OptionalNumberIn(args.limit, 1, 500)

EventPath ==
  <<"p", "o", "l", "y", "m", "a", "r", "k", "e", "t", ".", "c", "o", "m",
    "/", "e", "v", "e", "n", "t", "/">>

\* The segment taken to run to the end of the text
SegmentRunToEnd(s, i) == IF i > Len(s) THEN 0 ELSE Len(s) - i + 1

\* Length of the run of characters other than / ? # in s from position i
RECURSIVE SegmentRun(_, _)
SegmentRun(s, i) ==
  IF i > Len(s) \/ s[i] \in {"/", "?", "#"} THEN 0 ELSE 1 + SegmentRun(s, i + 1)

\* Number of leading slashes of s from position i
RECURSIVE SlashRun(_, _)
SlashRun(s, i) ==
  IF i > Len(s) \/ s[i] # "/" THEN 0 ELSE 1 + SlashRun(s, i + 1)

\* s has the text EventPath at position i, followed by a non-empty segment
MatchesAt(s, i) ==
  /\ i + Len(EventPath) <= Len(s)
  /\ SubSeq(s, i, i + Len(EventPath) - 1) = EventPath
  /\ SegmentRun(s, i + Len(EventPath)) >= 1

\* extractSlugFromUrl(url): the first match of
\* /(?:polymarket\.com\/event\/)([^/?#]+)/, else url without leading slashes
extractSlugFromUrl(url) ==
  LET hits == {i \in 1..Len(url) : MatchesAt(url, i)}
  IN  IF hits # {}
      THEN LET i == CHOOSE h \in hits : \A g \in hits : h <= g
               from == i + Len(EventPath)
           IN  SubSeq(url, from, from + SegmentRun(url, from) - 1)
      ELSE SubSeq(url, SlashRun(url, 1) + 1, Len(url))

\* The slug the polymarket_get_market handler looks up: a url replaces it
EffectiveSlug(args) ==
  IF Truthy(args.url) THEN extractSlugFromUrl(args.url) ELSE args.slug

\* ------------------------------------------------------------------------
\* Upstream market records and their formatting (src/tools/markets.ts)
\* ------------------------------------------------------------------------

\* A JavaScript value of unknown type, as far as ensureArray and formatMarket
\* tell values apart: undefined, null, a string (s), a number (n, in units of
\* 10^-FracDigits), a boolean (n is 1 for true), an array (items), an object
JValue(t, s, n, items) == [t |-> t, s |-> s, n |-> n, items |-> items]

JUndefined == JValue("undefined", <<>>, 0, <<>>)
JNull == JValue("null", <<>>, 0, <<>>)
JObject == JValue("object", <<>>, 0, <<>>)
JStr(s) == JValue("string", s, 0, <<>>)
JNum(n) == JValue("number", <<>>, n, <<>>)
JBool(b) == JValue("boolean", <<>>, IF b THEN 1 ELSE 0, <<>>)
JArr(items) == JValue("array", <<>>, 0, items)

\* JavaScript truthiness of a value
TruthyValue(v) ==
  CASE v.t = "string" -> v.s # <<>>
    [] v.t \in {"number", "boolean"} -> v.n # 0
    [] v.t \in {"array", "object"} -> TRUE
    [] OTHER -> FALSE

\* Outcome of a parsing step: the value read and the position after it
Parsed(v, next) == [ok |-> TRUE, val |-> v, next |-> next]
NotParsed == [ok |-> FALSE, val |-> JUndefined, next |-> 0]

\* The first position at or after i of text s that holds no blank
SkipBlanks(s, i) == i + BlankRun(s, i)

\* Text s holds the word w at position i
WordAt(s, i, w) ==
  i + Len(w) - 1 <= Len(s) /\ SubSeq(s, i, i + Len(w) - 1) = w

\* A string literal scanner that knows no escapes: the first quote ends it
RECURSIVE ScanStringRaw(_, _, _)
ScanStringRaw(s, j, acc) ==
  IF j > Len(s) THEN NotParsed
  ELSE IF s[j] = "\"" THEN Parsed(JStr(acc), j + 1)
  ELSE ScanStringRaw(s, j + 1, Append(acc, s[j]))

\* JSON string literal: s[j..] after the opening quote, acc the characters
\* read so far; a backslash escapes a quote, a backslash or a slash
RECURSIVE ScanString(_, _, _)
ScanString(s, j, acc) ==
  IF j > Len(s) THEN NotParsed
  ELSE IF s[j] = "\"" THEN Parsed(JStr(acc), j + 1)
  ELSE IF s[j] = "\\"
  THEN IF j + 1 <= Len(s) /\ s[j + 1] \in {"\"", "\\", "/"}
       THEN ScanString(s, j + 2, Append(acc, s[j + 1]))
       ELSE NotParsed
  ELSE ScanString(s, j + 1, Append(acc, s[j]))

\* JSON number literal at position i: an optional minus, digits, an optional
\* fraction
ScanNumber(s, i) ==
  LET neg == i <= Len(s) /\ s[i] = "-"
      start == IF neg THEN i + 1 ELSE i
      ir == DigitRun(s, start)
      dot == start + ir <= Len(s) /\ s[start + ir] = "."
      fr == IF dot THEN DigitRun(s, start + ir + 1) ELSE 0
      last == IF dot THEN start + ir + fr ELSE start + ir - 1
  IN  IF ir = 0 \/ (dot /\ fr = 0) \/ (ir > 1 /\ s[start] = "0") THEN NotParsed
      ELSE Parsed(JNum(ParseFloat(SubSeq(s, i, last)).n), last + 1)

\* A JSON value at position i of text s; ScanElements reads the elements of an
\* array after its opening bracket, acc the elements read so far
RECURSIVE ScanValue(_, _)
RECURSIVE ScanElements(_, _, _)
ScanValue(s, i) ==
  IF i > Len(s) THEN NotParsed
  ELSE IF s[i] = "\"" THEN ScanString(s, i + 1, <<>>)
  ELSE IF s[i] = "["
  THEN LET j == SkipBlanks(s, i + 1)
       IN  IF j <= Len(s) /\ s[j] = "]" THEN Parsed(JArr(<<>>), j + 1)
           ELSE ScanElements(s, j, <<>>)
  ELSE IF s[i] = "{"
  THEN LET j == SkipBlanks(s, i + 1)
       IN  IF j <= Len(s) /\ s[j] = "}" THEN Parsed(JObject, j + 1) ELSE NotParsed
  ELSE IF WordAt(s, i, <<"n", "u", "l", "l">>) THEN Parsed(JNull, i + 4)
  ELSE IF WordAt(s, i, <<"t", "r", "u", "e">>) THEN Parsed(JBool(TRUE), i + 4)
  ELSE IF WordAt(s, i, <<"f", "a", "l", "s", "e">>) THEN Parsed(JBool(FALSE), i + 5)
  ELSE ScanNumber(s, i)

ScanElements(s, i, acc) ==
  LET e == ScanValue(s, i)
      j == SkipBlanks(s, e.next)
  IN  IF ~e.ok \/ j > Len(s) THEN NotParsed
      ELSE IF s[j] = "]" THEN Parsed(JArr(Append(acc, e.val)), j + 1)
      ELSE IF s[j] = ","
      THEN ScanElements(s, SkipBlanks(s, j + 1), Append(acc, e.val))
      ELSE NotParsed

\* JSON.parse(s): the value the whole text encodes, or a SyntaxError
JSONParse(s) ==
  LET r == ScanValue(s, SkipBlanks(s, 1))
  IN  IF r.ok /\ SkipBlanks(s, r.next) = Len(s) + 1 THEN Ok(r.val)
      ELSE Threw("SyntaxError")

\* ensureArray that hands back a string it could not decode as a one-element
\* list
ensureArrayKeepText(val) ==
  IF val.t = "array" THEN val.items
  ELSE IF val.t = "string"
  THEN LET parsed == JSONParse(val.s)
       IN  IF parsed.ok /\ parsed.val[1].t = "array" THEN parsed.val[1].items
           ELSE <<val>>
  ELSE <<>>

\* ensureArray(val): the array itself, the array a string decodes to, else []
ensureArray(val) ==
  IF val.t = "array" THEN val.items
  ELSE IF val.t = "string"
  THEN LET parsed == JSONParse(val.s)
       IN  IF parsed.ok /\ parsed.val[1].t = "array" THEN parsed.val[1].items
           ELSE <<>>
  ELSE <<>>

\* arr[i] of a JavaScript array, positions counted from 1: undefined past
\* the end
At(arr, i) == IF i <= Len(arr) THEN arr[i] ELSE JUndefined

\* parseFloat(v) of a value: a string is parsed, a number is itself, an array
\* reads as its first element, anything else is NaN
RECURSIVE parseFloatOf(_)
parseFloatOf(v) ==
  CASE v.t = "string" -> ParseFloat(v.s)
    [] v.t = "number" -> Num(v.n)
    [] v.t = "array" -> IF v.items = <<>> THEN NaN ELSE parseFloatOf(v.items[1])
    [] OTHER -> NaN

\* The outcome names formatMarket uses when the record has none
DefaultOutcomes == <<JStr(<<"Y", "e", "s">>), JStr(<<"N", "o">>)>>

\* The number of characters of the description formatMarket keeps
DescriptionLimit == 500

\* The address formatMarket puts before the slug
MarketUrlPrefix == <<"h", "t", "t", "p", "s", ":", "/", "/">> \o EventPath

\* outcomeNames.map((outcome, i) => ({token_id: tokenIds[i] || "", outcome,
\* price: prices[i] ? parseFloat(prices[i]) : 0})) over the three arrays
tokensOf(outcomes, prices, tokenIds) ==
  LET outcomeNames == IF Len(outcomes) > 0 THEN outcomes ELSE DefaultOutcomes
  IN  [i \in 1..Len(outcomeNames) |->
         [token_id |-> IF TruthyValue(At(tokenIds, i)) THEN At(tokenIds, i)
                       ELSE JStr(<<>>),
          outcome |-> outcomeNames[i],
          price |-> IF TruthyValue(At(prices, i)) THEN parseFloatOf(At(prices, i))
                    ELSE Num(0)]]

\* formatMarket with one token per token id instead of one per outcome
tokensPerTokenId(market) ==
  LET outcomes == ensureArray(market.outcomes)
      prices == ensureArray(market.outcomePrices)
      tokenIds == ensureArray(market.clobTokenIds)
      outcomeNames == IF Len(outcomes) > 0 THEN outcomes ELSE DefaultOutcomes
  IN  [i \in 1..Len(tokenIds) |->
         [token_id |-> IF TruthyValue(At(tokenIds, i)) THEN At(tokenIds, i)
                       ELSE JStr(<<>>),
          outcome |-> At(outcomeNames, i),
          price |-> IF TruthyValue(At(prices, i)) THEN parseFloatOf(At(prices, i))
                    ELSE Num(0)]]

\* The tokens list formatMarket builds: one entry per outcome name, from the
\* three arrays ensureArray yields
tokens(market) ==
  tokensOf(ensureArray(market.outcomes), ensureArray(market.outcomePrices),
           ensureArray(market.clobTokenIds))

\* formatMarket(market)
formatMarket(market) ==
  [condition_id |-> market.conditionId,
   question |-> market.question,
   slug |-> market.slug,
   url |-> IF Truthy(market.slug) THEN MarketUrlPrefix \o market.slug ELSE Absent,
   description |->
     IF Truthy(market.description)
     THEN SubSeq(market.description, 1,
                 IF Len(market.description) < DescriptionLimit
                 THEN Len(market.description) ELSE DescriptionLimit)
     ELSE Absent,
   tokens |-> tokens(market),
   volume |-> IF Truthy(market.volume) THEN market.volume ELSE <<"0">>,
   liquidity |-> market.liquidityNum,
   end_date |-> IF Truthy(market.endDateIso) THEN market.endDateIso
                ELSE IF Truthy(market.endDate) THEN market.endDate ELSE <<>>,
   active |-> market.active,
   closed |-> market.closed,
   accepting_orders |-> market.acceptingOrders]

\* formatEntries that lists the entries last to first
formatEntriesReversed(entries) ==
  IF ~TruthyValue(entries) THEN <<>>
  ELSE [i \in 1..Len(entries.items) |->
          [price |-> entries.items[Len(entries.items) + 1 - i].price,
           size |-> entries.items[Len(entries.items) + 1 - i].size]]

\* formatEntries(entries) of formatOrderbook: [] for a missing list, else the
\* price and size of each entry
formatEntries(entries) ==
  IF ~TruthyValue(entries) THEN <<>>
  ELSE [i \in 1..Len(entries.items) |->
          [price |-> entries.items[i].price, size |-> entries.items[i].size]]

\* formatOrderbook(tokenId, rawOrderbook)
formatOrderbook(tokenId, rawOrderbook) ==
  [token_id |-> tokenId,
   bids |-> formatEntries(rawOrderbook.bids),
   asks |-> formatEntries(rawOrderbook.asks)]

\* The limit and offset polymarket_get_markets uses when none is given
DefaultLimit == 10
DefaultOffset == 0

\* The query fetchGammaMarkets sends: the parsed limit and offset with their
\* defaults, active markets only, ordered by 24h volume, descending
MarketsQuery(args) ==
  [limit |-> IF args.limit.kind = "undefined" THEN Num(DefaultLimit) ELSE args.limit,
   offset |-> IF args.offset.kind = "undefined" THEN Num(DefaultOffset)
              ELSE args.offset,
   active |-> "true", order |-> "volume24hr", ascending |-> "false"]

\* What fetchGammaMarkets returns for a response body:
\* Array.isArray(data) ? data : []
MarketsOf(data) == IF data.t = "array" THEN data.items ELSE <<>>

\* markets.map(formatMarket) listing the records last to first
formatMarketsReversed(markets) ==
  [i \in 1..Len(markets) |-> formatMarket(markets[Len(markets) + 1 - i])]

\* markets.map(formatMarket)
formatMarkets(markets) == [i \in 1..Len(markets) |-> formatMarket(markets[i])]

\* The tools registerTradingTools registers only when includeWriteTools
WriteTools ==
  {"polymarket_place_order", "polymarket_place_market_order",
   "polymarket_cancel_order"}

\* registerMarketTools(server, clientWrapper)
registerMarketTools(server) ==
  server \cup {"polymarket_get_markets", "polymarket_get_market"}

\* registerOrderbookTools(server, clientWrapper)
registerOrderbookTools(server) == server \cup {"polymarket_get_orderbook"}

\* registerAccountTools(server, clientWrapper), in revision rev of the file
registerAccountTools(server, rev) ==
  server \cup {"polymarket_get_balance", "polymarket_get_positions"}
         \cup (IF rev = 1 THEN {"polymarket_update_allowance"} ELSE {})

\* registerTradingTools without the early return on !includeWriteTools
registerTradingToolsAlways(server, includeWriteTools) ==
  server \cup {"polymarket_get_trades"} \cup WriteTools

\* registerTradingTools(server, clientWrapper, includeWriteTools)
registerTradingTools(server, includeWriteTools) ==
  server \cup {"polymarket_get_trades"}
         \cup (IF includeWriteTools THEN WriteTools ELSE {})

\* registerAllTools(server, clientWrapper)
registerAllTools(server, w, rev) ==
  registerTradingTools(
    registerAccountTools(registerOrderbookTools(registerMarketTools(server)), rev),
    ~isReadonly(w))

\* registerNewsTools(server)
registerNewsTools(server) == server \cup {"polymarket_get_news"}

\* Direct calls of the wrapper's methods by an embedder
ApiCalls == {"ensureWriteAccess", "getClient"}

\* Steps that suspend the handler until the upstream answers
AwaitSteps ==
  {"getMarket", "createOrder", "postOrder", "createMarketOrder", "cancelOrder",
   "getTrades", "getBalanceAllowance", "updateBalanceAllowance", "getOpenOrders",
   "fetchPositions", "fetchMarkets", "fetchMarketById", "fetchMarketBySlug",
   "getOrderBook", "fetchNewsHeadlines"}

\* The write handlers with schema validation placed before the access check
WritePlanValidateFirst(tool) ==
  CASE tool = "polymarket_place_order" ->
         <<"parse", "ensureWriteAccess", "getClient", "getClient", "getMarket",
           "createOrder", "postOrder">>
    [] tool = "polymarket_place_market_order" ->
         <<"parse", "ensureWriteAccess", "getClient", "createMarketOrder",
           "postOrder">>
    [] tool = "polymarket_cancel_order" ->
         <<"parse", "ensureWriteAccess", "getClient", "cancelOrder">>

\* The steps of the three write handlers, in program order, when nothing
\* fails (place_order calls getClient again inside getMarketInfoForToken)
WritePlan(tool) ==
  CASE tool = "polymarket_place_order" ->
         <<"ensureWriteAccess", "parse", "getClient", "getClient", "getMarket",
           "createOrder", "postOrder">>
    [] tool = "polymarket_place_market_order" ->
         <<"ensureWriteAccess", "parse", "getClient", "createMarketOrder",
           "postOrder">>
    [] tool = "polymarket_cancel_order" ->
         <<"ensureWriteAccess", "parse", "getClient", "cancelOrder">>

\* The lookup of polymarket_get_market with the slug given precedence
LookupStepSlugFirst(args) ==
  IF Truthy(EffectiveSlug(args)) THEN "fetchMarketBySlug" ELSE "fetchMarketById"

\* The lookup polymarket_get_market performs: by condition id when one is
\* given, else by slug
LookupStep(args) ==
  IF Truthy(args.condition_id) THEN "fetchMarketById" ELSE "fetchMarketBySlug"

\* The steps a handler takes, in program order, when nothing fails
Plan(tool, args, rev) ==
  CASE tool \in WriteTools -> WritePlan(tool)
    [] tool = "polymarket_get_trades" -> <<"parse", "getClient", "getTrades">>
    [] tool = "polymarket_get_orderbook" -> <<"parse", "getClient", "getOrderBook">>
    [] tool = "polymarket_get_balance" -> <<"getClient", "getBalanceAllowance">>
    [] tool = "polymarket_update_allowance" ->
         <<"getClient", "updateBalanceAllowance", "getBalanceAllowance">>
    [] tool = "polymarket_get_positions" ->
         IF rev = 1 THEN <<"parse", "fetchPositions">>
         ELSE <<"getClient", "getOpenOrders">>
    [] tool = "polymarket_get_markets" -> <<"parse", "fetchMarkets">>
    [] tool = "polymarket_get_news" -> <<"parse", "fetchNewsHeadlines">>
    [] tool = "polymarket_get_market" ->
         <<"parse", "requireId", LookupStep(args)>>

\* Schema validation of a tool's arguments
Parse(tool, args, rev) ==
  CASE tool = "polymarket_place_order" -> PlaceOrderSchema(args)
    [] tool = "polymarket_place_market_order" -> PlaceMarketOrderSchema(args)
    [] tool = "polymarket_cancel_order" -> CancelOrderSchema(args)
    [] tool = "polymarket_get_trades" -> GetTradesSchema(args)
    [] tool = "polymarket_get_orderbook" -> GetOrderbookSchema(args)
    [] tool = "polymarket_get_markets" -> GetMarketsSchema(args)
    [] tool = "polymarket_get_market" -> GetMarketSchema(args)
    [] tool = "polymarket_get_positions" -> GetPositionsSchema(args, rev)
    [] tool = "polymarket_get_news" -> GetNewsSchema(args)
    [] OTHER -> TRUE

\* The synchronous steps with a write-access check that lets everything pass
SyncOutcomeUngated(step, c, w, rev) ==
  CASE step = "ensureWriteAccess" -> Ok(<<>>)
    [] step = "getClient" -> getClient(w).res
    [] step = "parse" ->
         IF Parse(c.tool, c.args, rev) THEN Ok(<<>>) ELSE Threw("ValidationError")
    [] step = "requireId" ->
         IF ~Truthy(c.args.condition_id) /\ ~Truthy(EffectiveSlug(c.args))
         THEN Threw("MissingIdentifier") ELSE Ok(<<>>)

\* Outcome of a synchronous step of invocation c on wrapper w
SyncOutcome(step, c, w, rev) ==
  CASE step = "ensureWriteAccess" -> ensureWriteAccess(w).res
    [] step = "getClient" -> getClient(w).res
    [] step = "parse" ->
         IF Parse(c.tool, c.args, rev) THEN Ok(<<>>) ELSE Threw("ValidationError")
    [] step = "requireId" ->
         IF ~Truthy(c.args.condition_id) /\ ~Truthy(EffectiveSlug(c.args))
         THEN Threw("MissingIdentifier") ELSE Ok(<<>>)

\* A handler returns a success envelope
ReturnOk(c) ==
  [c EXCEPT !.status = "returned", !.isError = FALSE, !.waiting = FALSE]

\* A handler returns an envelope with isError: true and a message
ReturnError(c, e) ==
  [c EXCEPT !.status = "returned", !.isError = TRUE, !.msg = e,
            !.waiting = FALSE]

\* A handler whose catch clause rethrows
HandlerCatchRethrow(c, e) ==
  [c EXCEPT !.status = "escaped", !.isError = TRUE, !.msg = e, !.waiting = FALSE]

\* The catch clause closing every tool handler: the exception becomes an
\* error envelope
HandlerCatch(c, e) == ReturnError(c, e)

\* Every upstream call wrapped in a catch of its own that swallows the failure
SwallowedEverywhere(step) == TRUE

\* Upstream failures that the code around the call swallows
\* (getMarketInfoForToken's own catch)
Swallowed(step) == step = "getMarket"

\* Invocation c with exception e, thrown at step, added to the exceptions
\* raised so far in the invocation
Raise(c, step, e) == [c EXCEPT !.raised = Append(@, <<step, e>>)]

\* Run invocation c from step c.idx up to its next await or its return
RECURSIVE Run(_, _, _)
Run(c, w, rev) ==
  LET plan == Plan(c.tool, c.args, rev)
  IN  IF c.idx > Len(plan) THEN ReturnOk(c)
      ELSE LET step == plan[c.idx]
               done == [c EXCEPT !.trace = Append(@, step)]
           IN  IF step \in AwaitSteps THEN [done EXCEPT !.waiting = TRUE]
               ELSE LET r == SyncOutcome(step, c, w, rev)
                    IN  IF r.ok THEN Run([done EXCEPT !.idx = @ + 1], w, rev)
                        ELSE IF r.err = "MissingIdentifier"
                        THEN ReturnError(done, r.err)
                        ELSE HandlerCatch(Raise(done, step, r.err), r.err)

\* Answers the upstream can give to the call of an await step: "ok", "fail"
\* (the call rejects: network failure, signing failure, unparsable body), and
\* for the two single-market lookups "notfound" (status 404 by condition id,
\* an empty list by slug) and the other statuses that are not ok; getMarket
\* resolves with both fields of the market info set ("ok") or none ("okBare")
Replies(step) ==
  CASE step = "fetchMarketById" -> {"ok", "fail", "notfound", "status500"}
    [] step = "fetchMarketBySlug" ->
         {"ok", "fail", "notfound", "status404", "status500"}
    [] step = "getMarket" -> {"ok", "okBare", "fail"}
    [] OTHER -> {"ok", "fail"}

\* The answers that make fetchGammaMarket / fetchGammaMarketBySlug throw
\* `Failed to fetch market...: ${response.statusText}`
HttpStatuses == {"status404", "status500"}

\* response.statusText of such an answer
StatusText(reply) ==
  IF reply = "status404" THEN "Not Found" ELSE "Internal Server Error"

\* The identifier the polymarket_get_market handler reports: condition_id || slug
RequestedId(args) ==
  IF Truthy(args.condition_id) THEN args.condition_id ELSE EffectiveSlug(args)

\* The handler's return for a missing market without the identifier
NotFoundResultAnonymous(c) == ReturnError(c, "NotFound")

\* The handler's return when the lookup yields no market:
\* `Market not found: ${condition_id || slug}` with isError: true
NotFoundResult(c) ==
  [ReturnError(c, "NotFound") EXCEPT !.val = <<RequestedId(c.args)>>]

\* The answers with which an upstream call resolves
OkReplies == {"ok", "okBare"}

\* The tick size used when the market gives none, and after a failed lookup
DefaultTickSize == "0.01"

\* What client.getMarket resolves to: a RawMarketInfo with both fields set
\* ("ok") or with neither ("okBare")
MarketInfoOf(reply) ==
  IF reply = "ok" THEN [minimum_tick_size |-> "0.001", neg_risk |-> "true"]
  ELSE [minimum_tick_size |-> "undefined", neg_risk |-> "undefined"]

\* getMarketInfoForToken with a catch that reports a negative-risk market
getMarketInfoForTokenNegRisk(reply) ==
  IF reply \in OkReplies
  THEN LET marketInfo == MarketInfoOf(reply)
       IN  [tickSize |-> IF marketInfo.minimum_tick_size \in {"undefined", "0"}
                         THEN DefaultTickSize ELSE marketInfo.minimum_tick_size,
            negRisk |-> marketInfo.neg_risk = "true"]
  ELSE [tickSize |-> DefaultTickSize, negRisk |-> TRUE]

\* getMarketInfoForToken(clientWrapper, tokenId), given the answer to
\* client.getMarket: minimum_tick_size || 0.01 and neg_risk || false, and
\* 0.01 and false from the catch
getMarketInfoForToken(reply) ==
  IF reply \in OkReplies
  THEN LET marketInfo == MarketInfoOf(reply)
       IN  [tickSize |-> IF marketInfo.minimum_tick_size \in {"undefined", "0"}
                         THEN DefaultTickSize ELSE marketInfo.minimum_tick_size,
            negRisk |-> marketInfo.neg_risk = "true"]
  ELSE [tickSize |-> DefaultTickSize, negRisk |-> FALSE]

\* Invocation c having received the answer to the call of step
Received(c, step, reply) ==
  [c EXCEPT !.replies = Append(@, reply),
            !.info = IF step = "getMarket" THEN <<getMarketInfoForToken(reply)>>
                     ELSE @]

\* Resume with a rejected call issued a second time before giving up
ResumeRetry(c, w, rev, reply) ==
  LET step == Plan(c.tool, c.args, rev)[c.idx]
      got == Received(c, step, reply)
      next == [got EXCEPT !.idx = @ + 1, !.waiting = FALSE]
      again == Len(SelectSeq(c.trace, LAMBDA s : s = step)) < 2
  IN  IF reply \in OkReplies THEN Run(next, w, rev)
      ELSE IF reply = "notfound" THEN NotFoundResult(got)
      ELSE IF reply \in HttpStatuses
      THEN [HandlerCatch(Raise(got, step, "HttpError"), "HttpError")
              EXCEPT !.val = <<StatusText(reply)>>]
      ELSE IF again THEN [got EXCEPT !.trace = Append(@, step)]
      ELSE IF Swallowed(step) THEN Run(Raise(next, step, "UpstreamError"), w, rev)
      ELSE HandlerCatch(Raise(got, step, "UpstreamError"), "UpstreamError")

\* Resume invocation c, suspended in an await step, with the upstream's answer
Resume(c, w, rev, reply) ==
  LET step == Plan(c.tool, c.args, rev)[c.idx]
      got == Received(c, step, reply)
      next == [got EXCEPT !.idx = @ + 1, !.waiting = FALSE]
  IN  IF reply \in OkReplies THEN Run(next, w, rev)
      ELSE IF reply = "notfound" THEN NotFoundResult(got)
      ELSE IF reply \in HttpStatuses
      THEN [HandlerCatch(Raise(got, step, "HttpError"), "HttpError")
              EXCEPT !.val = <<StatusText(reply)>>]
      ELSE IF Swallowed(step) THEN Run(Raise(next, step, "UpstreamError"), w, rev)
      ELSE HandlerCatch(Raise(got, step, "UpstreamError"), "UpstreamError")

\* ------------------------------------------------------------------------
\* State
\* ------------------------------------------------------------------------

VARIABLES
  env,            \* process.env
  cachedConfig,   \* config.ts: cachedConfig (empty = null)
  cfgRes,         \* the latest getConfig / createConfig call and its outcome;
                  \* arg holds what the call read: the options of
                  \* createConfig, the environment at the time of getConfig
  mode,           \* "server": index.ts main runs; "library": an embedder drives
  wrapper,        \* the ClobClientWrapper in use (empty = not constructed)
  clientWrapper,  \* client.ts: the module variable clientWrapper is set
  inits,          \* the initialize() calls made on the wrapper
  nextClient,     \* identity of the next ClobClient constructed
  derivations,    \* number of createOrDeriveApiKey calls issued
  mainPc,         \* position of main() in index.ts
  exitCode,       \* process exit status (0 = the process has not exited)
  tools,          \* names registered with the McpServer
  registrar,      \* which registration entry point ran
  accountRev,     \* revision of tools/account.ts in the build
  call            \* the tool or API invocation in flight

configVars == <<env, cachedConfig, cfgRes>>
wrapperVars == <<wrapper, clientWrapper, inits, nextClient, derivations>>
serverVars == <<mainPc, exitCode, tools, registrar, call>>
vars == <<env, cachedConfig, cfgRes, mode, wrapper, clientWrapper, inits,
          nextClient, derivations, mainPc, exitCode, tools, registrar,
          accountRev, call>>

\* ------------------------------------------------------------------------
\* Input domains
\* ------------------------------------------------------------------------

\* Number of initialize() call slots on the wrapper
MaxInits == 2

InitIds == 1..MaxInits

S_true == <<"t", "r", "u", "e">>

\* Values of POLYMARKET_READONLY
ReadonlyValues ==
  {Absent, <<>>, S_true, <<"T", "R", "U", "E">>, <<"T", "r", "u", "e">>,
   <<"t", "R", "u", "E">>, <<" ", "t", "r", "u", "e">>, <<"t", "r", "u", "e", " ">>,
   <<"1">>, <<"y", "e", "s">>, <<"f", "a", "l", "s", "e">>, <<"t", "r", "u">>}

\* Values of one API credential field
CredValues == {Absent, <<>>, <<"c">>}

\* Values of POLYMARKET_CHAIN_ID
ChainValues == {Absent, <<>>, <<"1", "3", "7">>, <<"1">>, <<"x">>, <<" ", "8", "0", "x">>}

\* Environments of the configuration resolver: the key and readonly values,
\* the credential trio, and the funder and chain id
ConfigEnvs ==
  [POLYMARKET_PRIVATE_KEY : {Absent, <<>>, GoodKey},
   POLYMARKET_FUNDER : {Absent},
   POLYMARKET_CHAIN_ID : {Absent},
   POLYMARKET_READONLY : ReadonlyValues,
   POLYMARKET_API_KEY : {Absent},
   POLYMARKET_API_SECRET : {Absent},
   POLYMARKET_PASSPHRASE : {Absent}]
  \cup
  [POLYMARKET_PRIVATE_KEY : {GoodKey},
   POLYMARKET_FUNDER : {Absent},
   POLYMARKET_CHAIN_ID : {Absent},
   POLYMARKET_READONLY : {Absent},
   POLYMARKET_API_KEY : CredValues,
   POLYMARKET_API_SECRET : CredValues,
   POLYMARKET_PASSPHRASE : CredValues]
  \cup
  [POLYMARKET_PRIVATE_KEY : {GoodKey, BadKey},
   POLYMARKET_FUNDER : {Absent, <<>>, <<"B">>},
   POLYMARKET_CHAIN_ID : ChainValues,
   POLYMARKET_READONLY : {S_true},
   POLYMARKET_API_KEY : {Absent},
   POLYMARKET_API_SECRET : {Absent},
   POLYMARKET_PASSPHRASE : {Absent}]

\* The environment with nothing set
EmptyEnv == [n \in EnvNames |-> Absent]

\* Option records handed to createConfig
ConfigOptions ==
  [privateKey : {Absent, <<>>, GoodKey, BadKey},
   funder : {Absent, <<"B">>},
   chainId : {UndefNum},
   readonly : {"undefined", "true", "false"},
   apiKey : {Absent},
   apiSecret : {Absent},
   passphrase : {Absent}]
  \cup
  [privateKey : {GoodKey},
   funder : {Absent},
   chainId : {UndefNum, Num(0), Num(1), NaN},
   readonly : {"undefined"},
   apiKey : CredValues,
   apiSecret : {Absent, <<"c">>},
   passphrase : {Absent, <<"c">>}]

\* Environments the server is started in
ServerEnvs ==
  [POLYMARKET_PRIVATE_KEY : {Absent, <<>>, GoodKey, BadKey},
   POLYMARKET_FUNDER : {Absent},
   POLYMARKET_CHAIN_ID : {Absent},
   POLYMARKET_READONLY : {Absent},
   POLYMARKET_API_KEY : {Absent},
   POLYMARKET_API_SECRET : {Absent},
   POLYMARKET_PASSPHRASE : {Absent}]
  \cup
  [POLYMARKET_PRIVATE_KEY : {BadKey},
   POLYMARKET_FUNDER : {<<"B">>},
   POLYMARKET_CHAIN_ID : {Absent},
   POLYMARKET_READONLY : {Absent},
   POLYMARKET_API_KEY : {Absent},
   POLYMARKET_API_SECRET : {Absent},
   POLYMARKET_PASSPHRASE : {Absent}]
  \cup
  [POLYMARKET_PRIVATE_KEY : {GoodKey},
   POLYMARKET_FUNDER : {Absent},
   POLYMARKET_CHAIN_ID : {Absent},
   POLYMARKET_READONLY : {Absent, S_true, <<"T", "R", "U", "E">>, <<"1">>},
   POLYMARKET_API_KEY : {Absent, <<"c">>},
   POLYMARKET_API_SECRET : {Absent, <<"c">>},
   POLYMARKET_PASSPHRASE : {<<>>, <<"c">>}]

\* Option records an embedder hands to createConfig before building a wrapper
LibOptions ==
  [privateKey : {<<>>, GoodKey},
   funder : {Absent},
   chainId : {UndefNum},
   readonly : {"undefined", "true"},
   apiKey : {Absent, <<"c">>},
   apiSecret : {Absent, <<"c">>},
   passphrase : {<<"c">>}]
  \cup
  [privateKey : {BadKey},
   funder : {Absent, <<"B">>},
   chainId : {UndefNum},
   readonly : {"undefined"},
   apiKey : {Absent},
   apiSecret : {Absent},
   passphrase : {Absent}]

\* Arguments the host passes to a tool
ToolArgs(tool) ==
  CASE tool = "polymarket_place_order" ->
         [token_id : {<<>>, <<"t">>}, side : {"BUY"}, size : {<<"1">>, <<"0">>},
          price : {<<"0", ".", "5">>, <<"1">>, <<"0">>}]
    [] tool = "polymarket_place_market_order" ->
         [token_id : {<<>>, <<"t">>}, side : {"SELL", "HOLD"},
          amount : {<<"2">>, <<"-", "1">>}, order_type : {"undefined", "FAK"}]
    [] tool = "polymarket_cancel_order" -> [order_id : {Absent, <<>>, <<"o">>}]
    [] tool = "polymarket_get_trades" ->
         [limit : {UndefNum, Num(0), Num(1), Num(101)}]
    [] tool = "polymarket_get_orderbook" -> [token_id : {<<>>, <<"t">>}]
    [] tool = "polymarket_get_positions" ->
         [limit : {UndefNum, Num(0), Num(500), Num(501)}]
    [] tool = "polymarket_get_markets" ->
         [limit : {UndefNum, Num(0), Num(100), Num(101)},
          offset : {UndefNum, Num(0 - 1), Num(0)}]
    [] tool = "polymarket_get_market" ->
         [condition_id : {Absent, <<>>, <<"c">>}, slug : {Absent, <<>>, <<"s">>},
          url : {Absent, <<>>, <<"/">>, <<"u">>}]
    [] tool = "polymarket_get_news" ->
         [query : {<<>>, <<"q">>}, limit : {UndefNum, Num(0), Num(10), Num(11)}]
    [] OTHER -> {<<>>}

NoCall == [tool |-> "none", args |-> <<>>, idx |-> 0, waiting |-> FALSE,
           trace |-> <<>>, status |-> "idle", isError |-> FALSE, msg |-> "none",
           val |-> <<>>, raised |-> <<>>, replies |-> <<>>, info |-> <<>>]

NoResult == [op |-> "none", arg |-> <<>>, res |-> Threw("none")]

IdleInit == [pc |-> "idle", temp |-> <<>>]

\* Everything but the environment and the mode, as it is at process start
InitRest ==
  /\ cachedConfig = <<>>
  /\ cfgRes = NoResult
  /\ wrapper = <<>>
  /\ clientWrapper = FALSE
  /\ inits = [i \in InitIds |-> IdleInit]
  /\ nextClient = 1
  /\ derivations = 0
  /\ mainPc = "start"
  /\ exitCode = 0
  /\ tools = {}
  /\ registrar = "none"
  /\ call = NoCall

\* ------------------------------------------------------------------------
\* The configuration resolver on its own
\* ------------------------------------------------------------------------

InitConfig ==
  /\ env \in ConfigEnvs
  /\ mode = "library"
  /\ accountRev = 1
  /\ InitRest

\* A component calls getConfig()
GetConfigCall ==
  LET r == getConfig(cachedConfig, env)
  IN  /\ cfgRes' = [op |-> "getConfig", arg |-> <<env>>, res |-> r.res]
      /\ cachedConfig' = r.cached
      /\ UNCHANGED <<env, mode, accountRev, wrapperVars, serverVars>>

\* An embedder calls createConfig(options)
CreateConfigCall ==
  \E options \in ConfigOptions :
    /\ cfgRes' = [op |-> "createConfig", arg |-> <<options>>,
                  res |-> createConfig(options)]
    /\ UNCHANGED <<env, cachedConfig, mode, accountRev, wrapperVars, serverVars>>

NextConfig == GetConfigCall \/ CreateConfigCall

SpecConfig == InitConfig /\ [][NextConfig]_vars

\* ------------------------------------------------------------------------
\* The memoized resolver under a changing environment
\* ------------------------------------------------------------------------

\* Environments the process moves between while components call getConfig
MemoEnvs ==
  [POLYMARKET_PRIVATE_KEY : {Absent, GoodKey, OtherKey},
   POLYMARKET_FUNDER : {Absent},
   POLYMARKET_CHAIN_ID : {Absent, <<"1">>},
   POLYMARKET_READONLY : {Absent, S_true},
   POLYMARKET_API_KEY : {Absent, <<"c">>},
   POLYMARKET_API_SECRET : {Absent},
   POLYMARKET_PASSPHRASE : {Absent}]

InitMemo ==
  /\ env \in MemoEnvs
  /\ mode = "library"
  /\ accountRev = 1
  /\ InitRest

\* Code of the process assigns or deletes one variable of process.env
SetEnv ==
  /\ \E name \in EnvNames : \E e \in MemoEnvs :
       /\ e[name] # env[name]
       /\ env' = [env EXCEPT ![name] = e[name]]
  /\ UNCHANGED <<cachedConfig, cfgRes, mode, accountRev, wrapperVars, serverVars>>

NextMemo == GetConfigCall \/ SetEnv

SpecMemo == InitMemo /\ [][NextMemo]_vars

\* ------------------------------------------------------------------------
\* The server (src/index.ts) and an embedder using the library exports
\* ------------------------------------------------------------------------

Init ==
  /\ mode \in {"server", "library"}
  /\ env \in (IF mode = "server" THEN ServerEnvs ELSE {EmptyEnv})
  /\ accountRev \in {1, 2}
  /\ InitRest

Alive == exitCode = 0

\* main(): getClientWrapper() up to the await of initialize().  A failure of
\* getConfig rejects main, and main().catch exits with status 1.
MainStart ==
  /\ Alive /\ mode = "server" /\ mainPc = "start"
  /\ LET g == getConfig(cachedConfig, env)
     IN  /\ cfgRes' = [op |-> "getConfig", arg |-> <<env>>, res |-> g.res]
         /\ cachedConfig' = g.cached
         /\ IF g.res.ok
            THEN LET b == InitializeBegin(NewWrapper(g.res.val[1]), nextClient)
                 IN  /\ wrapper' = <<b.self>>
                     /\ clientWrapper' = TRUE
                     /\ inits' = [inits EXCEPT ![1] = [pc |-> b.pc, temp |-> b.temp]]
                     /\ nextClient' = nextClient + b.built
                     /\ derivations' = derivations + b.derive
                     /\ mainPc' = "awaitInit"
                     /\ UNCHANGED exitCode
            ELSE /\ mainPc' = "exited"
                 /\ exitCode' = 1
                 /\ UNCHANGED wrapperVars
  /\ UNCHANGED <<env, mode, accountRev, tools, registrar, call>>

\* main() resumes after initialize() settled: registerAllTools, then
\* server.connect; a rejected initialize exits with status 1
MainAfterInit ==
  /\ Alive /\ mode = "server" /\ mainPc = "awaitInit"
  /\ inits[1].pc \in {"done", "skipped", "failed"}
  /\ IF inits[1].pc = "failed"
     THEN /\ mainPc' = "exited"
          /\ exitCode' = 1
          /\ UNCHANGED <<tools, registrar>>
     ELSE /\ tools' = registerAllTools({}, wrapper[1], accountRev)
          /\ registrar' = "registerAllTools"
          /\ mainPc' = "awaitConnect"
          /\ UNCHANGED exitCode
  /\ UNCHANGED <<configVars, mode, accountRev, wrapperVars, call>>

\* server.connect(transport) settles
MainConnect ==
  /\ Alive /\ mode = "server" /\ mainPc = "awaitConnect"
  /\ \E connected \in BOOLEAN :
       IF connected
       THEN mainPc' = "running" /\ UNCHANGED exitCode
       ELSE mainPc' = "exited" /\ exitCode' = 1
  /\ UNCHANGED <<configVars, mode, accountRev, wrapperVars, tools, registrar, call>>

\* createOrDeriveApiKey settles and initialize() call i runs to its end
InitializeResume(i) ==
  /\ Alive /\ inits[i].pc = "awaitDerive"
  /\ \E derived \in BOOLEAN :
       LET e == InitializeEnd(wrapper[1], inits[i].temp, derived, nextClient)
       IN  /\ wrapper' = <<e.self>>
           /\ nextClient' = nextClient + e.built
  /\ inits' = [inits EXCEPT ![i] = [pc |-> "done", temp |-> <<>>]]
  /\ UNCHANGED <<configVars, mode, accountRev, clientWrapper, derivations,
                 serverVars>>

\* An embedder builds a configuration and a wrapper:
\* new ClobClientWrapper(createConfig(options))
LibCreateWrapper ==
  /\ mode = "library" /\ wrapper = <<>>
  /\ \E options \in LibOptions :
       LET r == createConfig(options)
       IN  /\ cfgRes' = [op |-> "createConfig", arg |-> <<options>>, res |-> r]
           /\ wrapper' = IF r.ok THEN <<NewWrapper(r.val[1])>> ELSE <<>>
  /\ UNCHANGED <<env, cachedConfig, mode, accountRev, clientWrapper, inits,
                 nextClient, derivations, serverVars>>

\* An embedder calls wrapper.initialize(); the call runs to its first await
LibInitialize(i) ==
  /\ mode = "library" /\ wrapper # <<>>
  /\ inits[i].pc = "idle"
  /\ \A j \in InitIds : j < i => inits[j].pc # "idle"
  /\ LET b == InitializeBegin(wrapper[1], nextClient)
     IN  /\ wrapper' = <<b.self>>
         /\ inits' = [inits EXCEPT ![i] = [pc |-> b.pc, temp |-> b.temp]]
         /\ nextClient' = nextClient + b.built
         /\ derivations' = derivations + b.derive
  /\ UNCHANGED <<configVars, mode, accountRev, clientWrapper, serverVars>>

\* An embedder registers the tools on its own server through registerAllTools
LibRegisterAll ==
  /\ mode = "library" /\ wrapper # <<>> /\ registrar = "none"
  /\ tools' = registerAllTools(tools, wrapper[1], accountRev)
  /\ registrar' = "registerAllTools"
  /\ UNCHANGED <<configVars, mode, accountRev, wrapperVars, mainPc, exitCode, call>>

\* An embedder calls registerTradingTools itself, choosing includeWriteTools
LibRegisterTrading ==
  /\ mode = "library" /\ wrapper # <<>> /\ registrar = "none"
  /\ \E includeWriteTools \in BOOLEAN :
       tools' = registerTradingTools(tools, includeWriteTools)
  /\ registrar' = "registerTradingTools"
  /\ UNCHANGED <<configVars, mode, accountRev, wrapperVars, mainPc, exitCode, call>>

\* An embedder adds the news tool to its server through registerNewsTools
LibRegisterNews ==
  /\ mode = "library" /\ "polymarket_get_news" \notin tools
  /\ tools' = registerNewsTools(tools)
  /\ UNCHANGED <<configVars, mode, accountRev, wrapperVars, mainPc, exitCode,
                 registrar, call>>

\* An embedder calls wrapper.ensureWriteAccess() or wrapper.getClient()
ApiCall ==
  /\ mode = "library" /\ wrapper # <<>> /\ call.status = "idle"
  /\ \E op \in ApiCalls :
       LET r == IF op = "ensureWriteAccess" THEN ensureWriteAccess(wrapper[1])
                ELSE getClient(wrapper[1])
       IN  /\ call' = [NoCall EXCEPT !.tool = op, !.trace = <<op>>,
                                     !.status = IF r.res.ok THEN "returned" ELSE "threw",
                                     !.isError = ~r.res.ok, !.msg = r.res.err,
                                     !.val = r.res.val]
           /\ wrapper' = <<r.self>>
  /\ UNCHANGED <<configVars, mode, accountRev, clientWrapper, inits, nextClient,
                 derivations, mainPc, exitCode, tools, registrar>>

\* The effect on the process of invocation c reaching its new state: an
\* exception that escapes a handler is fatal to the process
Settle(c) ==
  IF c.status = "escaped"
  THEN mainPc' = "exited" /\ exitCode' = 1
  ELSE UNCHANGED <<mainPc, exitCode>>

\* The host invokes a registered tool; the handler runs to its first await
Invoke ==
  /\ Alive /\ wrapper # <<>> /\ call.status = "idle"
  /\ mode = "server" => mainPc = "running"
  /\ \E tool \in tools : \E args \in ToolArgs(tool) :
       /\ call' = Run([NoCall EXCEPT !.tool = tool, !.args = args, !.idx = 1,
                                     !.status = "running"],
                      wrapper[1], accountRev)
       /\ Settle(call')
  /\ UNCHANGED <<configVars, mode, accountRev, wrapperVars, tools, registrar>>

\* The upstream answers the call a handler is suspended in
UpstreamReply ==
  /\ Alive /\ call.waiting
  /\ \E reply \in Replies(Plan(call.tool, call.args, accountRev)[call.idx]) :
       /\ call' = Resume(call, wrapper[1], accountRev, reply)
       /\ Settle(call')
  /\ UNCHANGED <<configVars, mode, accountRev, wrapperVars, tools, registrar>>

\* The caller receives the outcome of the invocation
Collect ==
  /\ Alive /\ call.status \in {"returned", "threw"}
  /\ call' = NoCall
  /\ UNCHANGED <<configVars, mode, accountRev, wrapperVars, mainPc, exitCode,
                 tools, registrar>>

Next ==
  \/ MainStart
  \/ MainAfterInit
  \/ MainConnect
  \/ \E i \in InitIds : InitializeResume(i)
  \/ LibCreateWrapper
  \/ \E i \in InitIds : LibInitialize(i)
  \/ LibRegisterAll
  \/ LibRegisterTrading
  \/ LibRegisterNews
  \/ ApiCall
  \/ Invoke
  \/ UpstreamReply
  \/ Collect

Spec == Init /\ [][Next]_vars

\* ------------------------------------------------------------------------
\* The process-wide wrapper: concurrent calls of getClientWrapper
\* ------------------------------------------------------------------------

InitSingleton ==
  /\ env \in ServerEnvs
  /\ mode = "library"
  /\ accountRev = 1
  /\ InitRest

\* The record of a getClientWrapper call that settles: resolved with wrapper
\* w, or rejected with e
Handed(w) ==
  [NoCall EXCEPT !.tool = "getClientWrapper", !.status = "returned", !.val = <<w>>]

Rejected(e) ==
  [NoCall EXCEPT !.tool = "getClientWrapper", !.status = "threw",
                 !.isError = TRUE, !.msg = e]

\* Caller i calls getClientWrapper(): with the module variable still null it
\* constructs the wrapper (the constructor reads getConfig and may throw),
\* stores it and runs initialize() up to its first await; with the variable
\* set it returns the stored wrapper at once.
GetClientWrapperCall(i) ==
  /\ inits[i].pc = "idle" /\ call.status = "idle"
  /\ IF clientWrapper
     THEN /\ call' = Handed(wrapper[1])
          /\ inits' = [inits EXCEPT ![i] = [pc |-> "returned", temp |-> <<>>]]
          /\ UNCHANGED <<cachedConfig, cfgRes, wrapper, clientWrapper, nextClient,
                         derivations>>
     ELSE LET g == getConfig(cachedConfig, env)
          IN  /\ cfgRes' = [op |-> "getConfig", arg |-> <<env>>, res |-> g.res]
              /\ cachedConfig' = g.cached
              /\ IF g.res.ok
                 THEN LET b == InitializeBegin(NewWrapper(g.res.val[1]), nextClient)
                      IN  /\ wrapper' = <<b.self>>
                          /\ clientWrapper' = TRUE
                          /\ inits' = [inits EXCEPT ![i] = [pc |-> b.pc, temp |-> b.temp]]
                          /\ nextClient' = nextClient + b.built
                          /\ derivations' = derivations + b.derive
                          /\ call' = IF b.pc = "failed" THEN Rejected("InvalidKey")
                                     ELSE call
                 ELSE /\ call' = Rejected(g.res.err)
                      /\ inits' = [inits EXCEPT ![i] = [pc |-> "failed", temp |-> <<>>]]
                      /\ UNCHANGED <<wrapper, clientWrapper, nextClient, derivations>>
  /\ UNCHANGED <<env, mode, accountRev, mainPc, exitCode, tools, registrar>>

\* The await of initialize() in caller i's getClientWrapper is over and the
\* call returns the stored wrapper
GetClientWrapperReturn(i) ==
  /\ inits[i].pc \in {"done", "skipped"} /\ call.status = "idle"
  /\ call' = Handed(wrapper[1])
  /\ inits' = [inits EXCEPT ![i] = [pc |-> "returned", temp |-> <<>>]]
  /\ UNCHANGED <<configVars, mode, accountRev, wrapper, clientWrapper, nextClient,
                 derivations, mainPc, exitCode, tools, registrar>>

NextSingleton ==
  \/ \E i \in InitIds : GetClientWrapperCall(i)
  \/ \E i \in InitIds : InitializeResume(i)
  \/ \E i \in InitIds : GetClientWrapperReturn(i)
  \/ Collect

SpecSingleton == InitSingleton /\ [][NextSingleton]_vars

\* ------------------------------------------------------------------------
\* The market formatter on upstream records
\* ------------------------------------------------------------------------

\* Longest array an upstream record carries
MaxLen == 3

\* The arrays of at most MaxLen elements drawn from S
Lists(S) == UNION {[1..k -> S] : k \in 0..MaxLen}

\* A string as a JSON string literal: in quotes, with quotes and backslashes
\* escaped
RECURSIVE Escaped(_)
Escaped(s) ==
  IF s = <<>> THEN <<>>
  ELSE (IF s[1] \in {"\"", "\\"} THEN <<"\\", s[1]>> ELSE <<s[1]>>)
       \o Escaped(Tail(s))

\* The elements of an array of strings as JSON text, separated by commas
RECURSIVE JsonElements(_)
JsonElements(items) ==
  IF items = <<>> THEN <<>>
  ELSE <<"\"">> \o Escaped(items[1].s) \o <<"\"">>
       \o (IF Len(items) > 1 THEN <<",">> ELSE <<>>) \o JsonElements(Tail(items))

\* The JSON text the upstream sends in place of an array of strings
\* (e.g. '["abc","def"]')
JsonText(items) == <<"[">> \o JsonElements(items) \o <<"]">>

\* Outcome names, prices and token ids of upstream records
OutcomeLists == Lists({JStr(<<"U", "p">>), JStr(<<"\"", "D", "\\">>)})
PriceLists == Lists({JStr(<<"0", ".", "5">>), JStr(<<>>)})
TokenLists == Lists({JStr(<<"7">>), JStr(<<>>)})

\* Strings that are not the JSON text of an array: unparsable ones and
\* encodings of other JSON values
OtherTexts ==
  {<<>>, <<"x">>, <<"[">>, <<"[", "\"", "a", "\"">>, <<"[", "\"", "a", "\"", ",", "]">>,
   <<"\"", "a", "\"">>, <<"5">>, <<"0", ".", "5">>, <<"n", "u", "l", "l">>,
   <<"t", "r", "u", "e">>, <<"{", "}">>, <<"[", "]", "]">>, <<"0", "1">>}

\* Strings that are JSON text of an array written with blanks
SpacedTexts ==
  {<<" ", "[", " ", "]", " ">>, <<"[", " ", "\"", "a", "\"", " ", ",", "\"", "b", "\"", "]">>}

\* What an array-valued field of an upstream record can hold, given the
\* arrays L it stands for: nothing, a value of another type, a plain array,
\* the JSON text of an array, or some other string
FieldValues(L) ==
  {JUndefined, JNull, JNum(5), JObject}
  \cup {JArr(a) : a \in L}
  \cup {JStr(JsonText(a)) : a \in L}
  \cup {JStr(s) : s \in OtherTexts \cup SpacedTexts}

\* A few values of an array-valued field
FewValues(a) == {JUndefined, JArr(a), JStr(JsonText(a))}

\* An upstream record with the given array-valued fields
Market(outcomes, outcomePrices, clobTokenIds) ==
  [conditionId |-> <<"c">>, question |-> <<"q">>, slug |-> <<"s">>,
   volume |-> <<"9">>, liquidityNum |-> Num(1), endDate |-> <<"e">>,
   endDateIso |-> Absent, description |-> Absent, active |-> TRUE,
   closed |-> FALSE, acceptingOrders |-> "true",
   outcomes |-> outcomes, outcomePrices |-> outcomePrices,
   clobTokenIds |-> clobTokenIds]

\* Upstream records: each array-valued field in turn over all it can hold,
\* the three fields together as plain arrays and as JSON texts of every
\* length, and the scalar fields set, empty and absent
Markets ==
  {Market(o, p, t) :
     o \in FieldValues(OutcomeLists),
     p \in FewValues(<<JStr(<<"0", ".", "5">>)>>),
     t \in FewValues(<<JStr(<<"7">>), JStr(<<"8">>), JStr(<<"9">>)>>)}
  \cup
  {Market(o, p, t) :
     o \in FewValues(<<JStr(<<"U", "p">>)>>),
     p \in FieldValues(PriceLists),
     t \in FieldValues(TokenLists)}
  \cup
  {Market(JArr(o), JArr(p), JArr(t)) :
     o \in OutcomeLists, p \in Lists({JStr(<<"0", ".", "5">>)}), t \in TokenLists}
  \cup
  {Market(JStr(JsonText(o)), JStr(JsonText(p)), JStr(JsonText(t))) :
     o \in OutcomeLists, p \in Lists({JStr(<<"0", ".", "5">>)}), t \in TokenLists}
  \cup
  {[Market(JUndefined, JUndefined, JUndefined)
      EXCEPT !.slug = f.slug, !.volume = f.volume, !.endDateIso = f.endDateIso,
             !.endDate = f.endDate, !.description = f.description] :
     f \in [slug : {<<>>, <<"s">>}, volume : {<<>>, <<"9">>},
            endDateIso : {Absent, <<>>, <<"d">>}, endDate : {<<>>, <<"e">>},
            description : {Absent, <<>>, <<"t">>}]}

InitFormat ==
  /\ env = EmptyEnv
  /\ mode = "library"
  /\ accountRev = 1
  /\ InitRest

\* ensureArray(val) is applied to a value
EnsureArrayCall ==
  /\ call.status = "idle"
  /\ \E val \in FieldValues(OutcomeLists) :
       call' = [NoCall EXCEPT !.tool = "ensureArray", !.args = [val |-> val],
                              !.trace = <<"ensureArray">>, !.status = "returned",
                              !.val = <<ensureArray(val)>>]
  /\ UNCHANGED <<configVars, mode, accountRev, wrapperVars, mainPc, exitCode,
                 tools, registrar>>

\* formatMarket(market) is applied to an upstream record
FormatMarketCall ==
  /\ call.status = "idle"
  /\ \E market \in Markets :
       call' = [NoCall EXCEPT !.tool = "formatMarket", !.args = market,
                              !.trace = <<"formatMarket">>, !.status = "returned",
                              !.val = <<formatMarket(market)>>]
  /\ UNCHANGED <<configVars, mode, accountRev, wrapperVars, mainPc, exitCode,
                 tools, registrar>>

\* Entries of an upstream order book; hash stands for the fields of an entry
\* other than price and size
BookEntries ==
  {[price |-> <<"0", ".", "4", "0">>, size |-> <<"1", "0", "0">>, hash |-> <<"h">>],
   [price |-> <<"0", ".", "6">>, size |-> <<"5">>, hash |-> <<"g">>]}

\* What the bids or asks field of an upstream order book can hold
BookSides == {JUndefined, JNull} \cup {JArr(a) : a \in Lists(BookEntries)}

\* Upstream order books
RawOrderbooks == [bids : BookSides, asks : BookSides]

\* formatOrderbook(token_id, orderbook) is applied to an upstream order book
FormatOrderbookCall ==
  /\ call.status = "idle"
  /\ \E tokenId \in {<<"t">>, <<"u">>} : \E rawOrderbook \in RawOrderbooks :
       call' = [NoCall EXCEPT !.tool = "formatOrderbook",
                              !.args = [tokenId |-> tokenId,
                                        rawOrderbook |-> rawOrderbook],
                              !.trace = <<"formatOrderbook">>,
                              !.status = "returned",
                              !.val = <<formatOrderbook(tokenId, rawOrderbook)>>]
  /\ UNCHANGED <<configVars, mode, accountRev, wrapperVars, mainPc, exitCode,
                 tools, registrar>>

\* Three upstream records that differ in their condition id and in how their
\* array-valued fields are written
ListedMarkets ==
  {[Market(JArr(<<JStr(<<"U", "p">>)>>), JUndefined, JArr(<<JStr(<<"7">>)>>))
      EXCEPT !.conditionId = <<"a">>],
   [Market(JStr(JsonText(<<JStr(<<"U", "p">>), JStr(<<"D">>)>>)), JNull, JUndefined)
      EXCEPT !.conditionId = <<"b">>, !.volume = <<>>],
   [Market(JUndefined, JUndefined, JUndefined)
      EXCEPT !.conditionId = <<"z">>, !.slug = <<>>]}

\* Response bodies of the market list: arrays of records and bodies that are
\* no array
MarketsBodies ==
  {JArr(a) : a \in Lists(ListedMarkets)} \cup {JNull, JObject, JStr(<<"x">>)}

\* Valid arguments of polymarket_get_markets
MarketsArgs ==
  [limit : {UndefNum, Num(1), Num(2), Num(100)}, offset : {UndefNum, Num(0), Num(5)}]

\* polymarket_get_markets with valid arguments whose upstream request is
\* answered with a body: the handler formats what fetchGammaMarkets returns.
\* val holds the formatted list and the query that was sent
GetMarketsCall ==
  /\ call.status = "idle"
  /\ \E args \in MarketsArgs : \E data \in MarketsBodies :
       /\ GetMarketsSchema(args)
       /\ call' = [NoCall EXCEPT !.tool = "polymarket_get_markets",
                                 !.args = [args |-> args, data |-> data],
                                 !.trace = <<"parse", "fetchMarkets">>,
                                 !.replies = <<"ok">>,
                                 !.status = "returned",
                                 !.val = <<formatMarkets(MarketsOf(data)),
                                           MarketsQuery(args)>>]
  /\ UNCHANGED <<configVars, mode, accountRev, wrapperVars, mainPc, exitCode,
                 tools, registrar>>

\* Price strings handed to polymarket_place_order
OrderPrices ==
  {<<"0", ".", "5">>, <<"0">>, <<"1">>, <<"1", ".", "5">>, <<"-", "0", ".", "5">>,
   <<"0", ".", "9", "9", "9">>, <<".", "5">>, <<>>, <<"a", "b", "c">>,
   <<"0", ".", "5", "a", "b", "c">>, <<" ", "0", ".", "5">>, <<"0", ".", "0">>}

\* Arguments of polymarket_place_order that differ in their price
OrderArgs ==
  [token_id : {<<"t">>}, side : {"BUY", "SELL"}, size : {<<"1">>, <<"0">>},
   price : OrderPrices]

\* PlaceOrderSchema.parse(args) is applied to the arguments of an order
ParseOrderCall ==
  /\ call.status = "idle"
  /\ \E args \in OrderArgs :
       LET r == IF PlaceOrderSchema(args) THEN Ok(args) ELSE Threw("ValidationError")
       IN  call' = [NoCall EXCEPT !.tool = "PlaceOrderSchema.parse",
                                  !.args = args, !.trace = <<"parse">>,
                                  !.status = IF r.ok THEN "returned" ELSE "threw",
                                  !.isError = ~r.ok, !.msg = r.err,
                                  !.val = r.val]
  /\ UNCHANGED <<configVars, mode, accountRev, wrapperVars, mainPc, exitCode,
                 tools, registrar>>

\* The pieces of an address of a market page: what stands before
\* polymarket.com/event/, the segment after it, and what follows the segment
UrlParts ==
  [pre : {<<>>, <<"h", "t", "t", "p", "s", ":", "/", "/">>, <<"/">>, <<"w", ".">>},
   seg : {<<"b">>, <<"b", "-", "1", "5", "m">>},
   post : {<<>>, <<"?", "x", "=", "1">>, <<"/", "y">>, <<"#", "z">>, <<"/">>,
           <<"/">> \o EventPath \o <<"q">>}]

\* The address made of the pieces
UrlOf(parts) == parts.pre \o EventPath \o parts.seg \o parts.post

\* Strings passed as url that hold no market page address: bare slugs, with
\* and without leading slashes, and addresses with nothing after /event/
BareUrls ==
  {<<"b">>, <<"/", "b">>, <<"/", "/", "b", "/", "c">>, <<"/">>,
   <<"b", "?", "x">>, EventPath, <<"/">> \o EventPath \o <<"?", "x">>,
   <<"p", "o", "l", "y", "m", "a", "r", "k", "e", "t", "-", "c", "o", "m", "/",
     "e", "v", "e", "n", "t", "/", "b">>}

\* polymarket_get_market takes its arguments apart: val is the slug it goes
\* on with, after `if (url) slug = extractSlugFromUrl(url)`
ExtractSlugCall ==
  /\ call.status = "idle"
  /\ \E slug \in {Absent, <<"s">>} :
     \E url \in {Absent, <<>>} \cup BareUrls \cup {UrlOf(parts) : parts \in UrlParts} :
       LET args == [condition_id |-> Absent, slug |-> slug, url |-> url]
       IN  call' = [NoCall EXCEPT !.tool = "extractSlugFromUrl", !.args = args,
                                  !.trace = <<"parse">>, !.status = "returned",
                                  !.val = <<EffectiveSlug(args)>>]
  /\ UNCHANGED <<configVars, mode, accountRev, wrapperVars, mainPc, exitCode,
                 tools, registrar>>

\* Longest list of open orders the upstream returns
MaxOrders == 3

\* The position synthesized from an open order
PositionOf(order) ==
  [token_id |-> order.asset_id,
   market |-> IF order.market \in {"undefined", ""} THEN "Unknown" ELSE order.market,
   outcome |-> IF order.outcome \in {"undefined", ""} THEN "Unknown" ELSE order.outcome,
   size |-> order.original_size,
   avg_price |-> order.price,
   current_price |-> order.price,
   pnl |-> "0"]

\* The grouping loop in which a later order of a token replaces the position
RECURSIVE positionMapLastWins(_, _, _)
positionMapLastWins(openOrders, k, map) ==
  IF k > Len(openOrders) THEN map
  ELSE LET order == openOrders[k]
           kept == SelectSeq(map, LAMBDA p : p.token_id # order.asset_id)
       IN  positionMapLastWins(openOrders, k + 1, Append(kept, PositionOf(order)))

\* The grouping loop over openOrders from order k on: map holds the values of
\* positionMap in insertion order, and an order whose token has an entry
\* leaves the map alone
RECURSIVE positionMap(_, _, _)
positionMap(openOrders, k, map) ==
  IF k > Len(openOrders) THEN map
  ELSE LET order == openOrders[k]
           existing == \E j \in 1..Len(map) : map[j].token_id = order.asset_id
       IN  positionMap(openOrders, k + 1,
                       IF ~existing THEN Append(map, PositionOf(order)) ELSE map)

\* openOrders.map((o) => ({id, token_id, side, price, size, filled}))
formattedOrders(openOrders) ==
  [i \in 1..Len(openOrders) |->
     [id |-> openOrders[i].id, token_id |-> openOrders[i].asset_id,
      side |-> openOrders[i].side, price |-> openOrders[i].price,
      size |-> openOrders[i].original_size, filled |-> openOrders[i].size_matched]]

\* The payload of polymarket_get_positions in the open-orders revision, given
\* what client.getOpenOrders resolved to (present is FALSE for null/undefined)
openOrderPositions(raw) ==
  IF ~raw.present \/ Len(raw.items) = 0
  THEN [positions |-> <<>>, open_orders |-> <<>>]
  ELSE [positions |-> positionMap(raw.items, 1, <<>>),
        open_orders |-> formattedOrders(raw.items)]

\* Open orders without their id
OrderKinds ==
  [asset_id : {"t1", "t2"}, price : {"0.40", "0.60"}, outcome : {"undefined", "Yes"},
   side : {"BUY"}, original_size : {"100"}, size_matched : {"0"},
   market : {"undefined"}]

\* The k-th order of a list carries the id "o<k>"
OrderId(k) == CASE k = 1 -> "o1" [] k = 2 -> "o2" [] k = 3 -> "o3" [] OTHER -> "o4"

WithId(kind, k) ==
  [id |-> OrderId(k), asset_id |-> kind.asset_id, price |-> kind.price,
   outcome |-> kind.outcome, side |-> kind.side,
   original_size |-> kind.original_size, size_matched |-> kind.size_matched,
   market |-> kind.market]

\* What client.getOpenOrders resolves to: nothing, or a list of orders
RawOpenOrders ==
  {[present |-> FALSE, items |-> <<>>]}
  \cup UNION {{[present |-> TRUE, items |-> [k \in 1..n |-> WithId(kinds[k], k)]] :
                 kinds \in [1..n -> OrderKinds]} : n \in 0..MaxOrders}

\* polymarket_get_positions (open-orders revision) builds its payload
GetPositionsCall ==
  /\ call.status = "idle"
  /\ \E raw \in RawOpenOrders :
       call' = [NoCall EXCEPT !.tool = "openOrderPositions", !.args = raw,
                              !.trace = <<"getOpenOrders">>, !.status = "returned",
                              !.val = <<openOrderPositions(raw)>>]
  /\ UNCHANGED <<configVars, mode, accountRev, wrapperVars, mainPc, exitCode,
                 tools, registrar>>

\* formatMarket is applied once more to the record it was just applied to
FormatMarketAgain ==
  /\ call.tool = "formatMarket" /\ Len(call.val) = 1
  /\ call' = [call EXCEPT !.trace = Append(@, "formatMarket"),
                          !.val = Append(@, formatMarket(call.args))]
  /\ UNCHANGED <<configVars, mode, accountRev, wrapperVars, mainPc, exitCode,
                 tools, registrar>>

NextFormat ==
  \/ EnsureArrayCall
  \/ FormatMarketCall
  \/ FormatMarketAgain
  \/ FormatOrderbookCall
  \/ GetMarketsCall
  \/ ParseOrderCall
  \/ ExtractSlugCall
  \/ GetPositionsCall
  \/ Collect

SpecFormat == InitFormat /\ [][NextFormat]_vars

\* ------------------------------------------------------------------------
\* Properties
\* ------------------------------------------------------------------------

\* The configuration of the wrapper in use
Cfg == wrapper[1].config

\* Some initialize() call on the wrapper has run to its end
InitializeCompleted == \E i \in InitIds : inits[i].pc = "done"

\* The spellings of "true" that differ only in letter case
TrueSpellings ==
  {v \in ReadonlyValues :
     /\ v # Absent /\ Len(v) = 4
     /\ v[1] \in {"t", "T"} /\ v[2] \in {"r", "R"}
     /\ v[3] \in {"u", "U"} /\ v[4] \in {"e", "E"}}

\* How many of the three API credential fields of config are set
CredsSet(config) ==
  Cardinality({f \in {"apiKey", "apiSecret", "passphrase"} :
                 config[f] # Absent /\ config[f] # <<>>})

\* C1: once registerAllTools has run, a readonly configuration has none of
\* the three write tools registered and still has polymarket_get_trades; a
\* writable configuration has all three write tools registered.
C1_ReadonlyRegistration ==
  registrar = "registerAllTools" =>
    /\ "polymarket_get_trades" \in tools
    /\ Cfg.readonly => tools \cap WriteTools = {}
    /\ ~Cfg.readonly => WriteTools \subseteq tools

C1_Witness ==
  /\ mode = "server" /\ mainPc = "running"
  /\ registrar = "registerAllTools" /\ Cfg.readonly
  /\ "polymarket_get_trades" \in tools

\* C2: in the three write handlers the write-access check comes first: when
\* it fails the invocation has done nothing else (no validation, getClient,
\* lookup, signing or submission) and has returned an error envelope; on a
\* readonly wrapper nothing but that check is ever performed.
C2_WriteCheckFirst ==
  (call.tool \in WriteTools /\ (Cfg.readonly \/ call.msg = "ReadonlyModeViolation")) =>
    /\ call.trace = <<"ensureWriteAccess">>
    /\ call.status = "returned"
    /\ call.isError
    /\ call.msg = "ReadonlyModeViolation"

C2_Witness ==
  /\ call.tool = "polymarket_place_order"
  /\ ~PlaceOrderSchema(call.args)
  /\ call.msg = "ReadonlyModeViolation"
  /\ call.status = "returned"

\* C3: a call of ensureWriteAccess throws exactly when the readonly flag is
\* set and returns normally otherwise, whether or not the wrapper is
\* initialized, and leaves the wrapper (client handle and configuration)
\* as it was.
C3_EnsureWriteAccess ==
  [][(call.status = "idle" /\ call'.tool = "ensureWriteAccess") =>
       /\ wrapper' = wrapper
       /\ Cfg.readonly => (call'.status = "threw" /\ call'.msg = "ReadonlyModeViolation")
       /\ ~Cfg.readonly => call'.status = "returned"]_vars

C3_Witness ==
  /\ call.tool = "ensureWriteAccess" /\ call.status = "returned"
  /\ wrapper[1].client = <<>> /\ ~Cfg.readonly

\* C4: in every state where no initialize() call has completed (none made,
\* or still awaiting the credential derivation) getClient throws
\* NotInitialized, and in every state after one completed it returns the
\* client handle.
C4_GetClient ==
  /\ wrapper # <<>> =>
       LET r == getClient(wrapper[1]).res
       IN  IF InitializeCompleted
           THEN r.ok /\ r.val = wrapper[1].client
           ELSE ~r.ok /\ r.err = "NotInitialized"
  /\ (call.tool = "getClient" /\ call.status = "returned") => InitializeCompleted
  /\ (call.tool = "getClient" /\ call.status = "threw") => call.msg = "NotInitialized"

C4_Witness ==
  /\ call.tool = "getClient" /\ call.status = "threw"
  /\ \E i \in InitIds : inits[i].pc = "awaitDerive"

\* C5: an initialize() call made while the client handle is already set
\* constructs no client, issues no credential derivation and leaves the
\* wrapper unchanged.
C5_InitializeIdempotent ==
  [][\A i \in InitIds :
       (inits[i].pc = "idle" /\ inits'[i].pc # "idle"
        /\ wrapper # <<>> /\ wrapper[1].client # <<>>) =>
         /\ inits'[i].pc = "skipped"
         /\ wrapper' = wrapper
         /\ nextClient' = nextClient
         /\ derivations' = derivations]_vars

C5_Witness ==
  /\ \E i \in InitIds : inits[i].pc = "skipped"
  /\ wrapper[1].client # <<>>

\* C6: once the client handle is set it is never replaced by a different
\* client, whatever initialize() calls and tool calls follow.
C6_ClientHandleImmutable ==
  [][(wrapper # <<>> /\ wrapper[1].client # <<>>) =>
       wrapper'[1].client = wrapper[1].client]_vars

\* C7: with the private key unset or empty, getConfig fails with the
\* missing-credential error and memoizes nothing; createConfig fails the
\* same way on an unset or empty privateKey.
C7_MissingCredential ==
  /\ ~Truthy(env["POLYMARKET_PRIVATE_KEY"]) =>
       /\ cachedConfig = <<>>
       /\ cfgRes.op = "getConfig" =>
            (~cfgRes.res.ok /\ cfgRes.res.err = "MissingCredential"
             /\ cfgRes.res.val = <<>>)
  /\ (cfgRes.op = "createConfig" /\ ~Truthy(cfgRes.arg[1].privateKey)) =>
       (~cfgRes.res.ok /\ cfgRes.res.err = "MissingCredential"
        /\ cfgRes.res.val = <<>>)

C7_Witness ==
  /\ cfgRes.op = "getConfig" /\ env["POLYMARKET_PRIVATE_KEY"] = <<>>
  /\ ~cfgRes.res.ok /\ cachedConfig = <<>>

\* C8: the process exits, with status 1, only out of a startup failure
\* (configuration load, client initialization, transport connection), before
\* any tool call; once main has reached the running state no step ends the
\* process.
C8_ExitOnlyAtStartup ==
  /\ [](exitCode # 0 =>
          /\ exitCode = 1 /\ mode = "server" /\ call = NoCall
          /\ \/ ~cfgRes.res.ok
             \/ inits[1].pc = "failed"
             \/ registrar = "registerAllTools")
  /\ [][mainPc = "running" => (mainPc' = "running" /\ exitCode' = 0)]_vars

C8_Witness ==
  /\ mainPc = "running" /\ exitCode = 0
  /\ call.status = "returned" /\ call.isError /\ call.msg = "UpstreamError"

\* C9: the readonly flag loaded from the environment is true exactly when
\* POLYMARKET_READONLY spells "true" in some letter case; for any other value
\* it is false and the registrar registers the trading tools.
C9_ReadonlyFlag ==
  (cfgRes.op = "getConfig" /\ cfgRes.res.ok) =>
    LET config == cfgRes.res.val[1]
    IN  /\ config.readonly <=> env["POLYMARKET_READONLY"] \in TrueSpellings
        /\ ~config.readonly =>
             WriteTools \subseteq registerAllTools({}, NewWrapper(config), accountRev)

C9_Witness ==
  /\ cfgRes.op = "getConfig" /\ cfgRes.res.ok
  /\ env["POLYMARKET_READONLY"] = <<"t", "R", "u", "E">>
  /\ cfgRes.res.val[1].readonly

\* C10 as stated: neither the configuration the resolver yields nor the
\* configuration of an initialized wrapper has only one or two of the three
\* API credential fields set.
C10_CredsTogether ==
  /\ (cfgRes.op = "getConfig" /\ cfgRes.res.ok) =>
       CredsSet(cfgRes.res.val[1]) \in {0, 3}
  /\ (wrapper # <<>> /\ wrapper[1].client # <<>>) => CredsSet(Cfg) \in {0, 3}

\* C10 amended: the resolver passes the three fields through unchanged, and
\* the venue client is built with the configured credentials only when all
\* three are set; with one or two set the configuration is accepted, the set
\* fields are ignored and the client carries derived or no credentials.
C10_CredsUsedTogether ==
  /\ (cfgRes.op = "getConfig" /\ cfgRes.res.ok) =>
       /\ cfgRes.res.val[1].apiKey = env["POLYMARKET_API_KEY"]
       /\ cfgRes.res.val[1].apiSecret = env["POLYMARKET_API_SECRET"]
       /\ cfgRes.res.val[1].passphrase = env["POLYMARKET_PASSPHRASE"]
  /\ (wrapper # <<>> /\ wrapper[1].client # <<>>) =>
       LET creds == wrapper[1].client[1].creds
       IN  IF CredsSet(Cfg) = 3
           THEN creds = <<Cfg.apiKey, Cfg.apiSecret, Cfg.passphrase>>
           ELSE creds \in {DerivedCreds, NoCreds}

C10_Witness ==
  /\ wrapper # <<>> /\ wrapper[1].client # <<>>
  /\ CredsSet(Cfg) \in {1, 2}
  /\ cfgRes.op = "getConfig" /\ cfgRes.res.ok

\* The client handle of the wrapper, <<>> while there is no wrapper
Handle == IF wrapper = <<>> THEN <<>> ELSE wrapper[1].client

\* An initialize() call that gets past its guard and its wallet construction
\* in this step: with all three API credentials configured it returns at once
\* with a client built from exactly those three values and derives nothing;
\* otherwise it starts exactly one derivation and suspends in it
C11_Begin(i) ==
  (/\ inits[i].pc = "idle" /\ inits'[i].pc \notin {"idle", "skipped", "failed"})
  => LET config == wrapper'[1].config
     IN  IF CredsSet(config) = 3
         THEN /\ inits'[i].pc = "done"
              /\ derivations' = derivations
              /\ Handle' # <<>>
              /\ Handle'[1].creds =
                   <<config.apiKey, config.apiSecret, config.passphrase>>
         ELSE /\ inits'[i].pc = "awaitDerive"
              /\ derivations' = derivations + 1
              /\ inits'[i].temp # <<>>
              /\ inits'[i].temp[1].creds = <<>>

\* The derivation of call i settles in this step: the call returns, no second
\* derivation is started, and the handle is either a client carrying derived
\* credentials or the unauthenticated client the call had built
C11_End(i) ==
  (/\ inits[i].pc = "awaitDerive" /\ inits'[i].pc # "awaitDerive")
  => /\ inits'[i].pc = "done"
     /\ derivations' = derivations
     /\ Handle' # <<>>
     /\ \/ Handle'[1].creds = DerivedCreds
        \/ Handle' = inits[i].temp /\ Handle'[1].creds = <<>>

\* C11 as stated: initialize always completes with a client handle set (no
\* call to it ever fails), credentials provided in full are used verbatim
\* without derivation, and otherwise one derivation is attempted whose failure
\* leaves the unauthenticated client as the handle.
C11_InitializeAlwaysCompletes ==
  /\ [](\A i \in InitIds :
          /\ inits[i].pc # "failed"
          /\ inits[i].pc = "done" => Handle # <<>>)
  /\ [][\A i \in InitIds : C11_Begin(i) /\ C11_End(i)]_vars

\* C11 (amended): an initialize call fails only at wallet construction, on a
\* malformed signing key, and then builds no client and attempts no
\* derivation; with a well-formed signing key every call that returns leaves
\* a client handle set, credentials provided in full are used verbatim
\* without derivation, and otherwise exactly one derivation is attempted
\* whose failure leaves the unauthenticated client as the handle.
C11_InitializeNeverFailsOnApiCreds ==
  /\ [](\A i \in InitIds :
          /\ inits[i].pc = "failed" =>
               ~KeyValid(Cfg.privateKey) /\ Handle = <<>> /\ derivations = 0
          /\ inits[i].pc = "done" => Handle # <<>>
          /\ inits[i].pc \in {"done", "awaitDerive"} => KeyValid(Cfg.privateKey))
  /\ [][\A i \in InitIds : C11_Begin(i) /\ C11_End(i)]_vars

\* A derivation failed and the unauthenticated client is the handle of an
\* initialized wrapper
C11_Witness ==
  /\ InitializeCompleted
  /\ derivations = 1
  /\ Handle # <<>> /\ Handle[1].creds = <<>>
  /\ CredsSet(Cfg) < 3

\* C12: getConfig is memoized.  Once a call has succeeded the cached record
\* never changes, and every later call succeeds and returns that record,
\* whatever the environment holds at the time of the call.
C12_GetConfigMemoized ==
  /\ [][cachedConfig # <<>> => cachedConfig' = cachedConfig]_vars
  /\ [](cachedConfig # <<>> =>
          /\ cfgRes.op = "getConfig"
          /\ cfgRes.res.ok
          /\ cfgRes.res.val = cachedConfig)

\* A getConfig call made under the present environment returned the cached
\* record although resolving the present environment gives something else
C12_Witness ==
  /\ cachedConfig # <<>>
  /\ cfgRes.op = "getConfig" /\ cfgRes.arg = <<env>>
  /\ cfgRes.res = Ok(cachedConfig[1])
  /\ loadConfig(env) # Ok(cachedConfig[1])

\* The decimal digit of d
DigitOf(d) == CHOOSE c \in DigitChars : DigitVal(c) = d

\* String(n) for a natural number n
RECURSIVE NatToString(_)
NatToString(n) ==
  IF n < 10 THEN <<DigitOf(n)>> ELSE Append(NatToString(n \div 10), DigitOf(n % 10))

\* The environment that carries the values of an options record: each string
\* option under its variable, the chain id and the readonly flag in their
\* String() spelling, and an option left undefined as an unset variable
EnvOf(options) ==
  [POLYMARKET_PRIVATE_KEY |-> options.privateKey,
   POLYMARKET_FUNDER |-> options.funder,
   POLYMARKET_CHAIN_ID |->
     CASE options.chainId.kind = "undefined" -> Absent
       [] options.chainId.kind = "nan" -> <<"N", "a", "N">>
       [] OTHER -> NatToString(options.chainId.n),
   POLYMARKET_READONLY |->
     CASE options.readonly = "true" -> <<"t", "r", "u", "e">>
       [] options.readonly = "false" -> <<"f", "a", "l", "s", "e">>
       [] OTHER -> Absent,
   POLYMARKET_API_KEY |-> options.apiKey,
   POLYMARKET_API_SECRET |-> options.apiSecret,
   POLYMARKET_PASSPHRASE |-> options.passphrase]

\* C13: createConfig applies the defaulting rules of loadConfig: for every
\* options record, createConfig(options) and loadConfig on the environment
\* carrying the same values both fail or produce equal configuration records.
C13_CreateConfigMatchesLoadConfig ==
  cfgRes.op = "createConfig" =>
    LET options == cfgRes.arg[1]
        fromEnv == loadConfig(EnvOf(options))
    IN  /\ cfgRes.res.ok = fromEnv.ok
        /\ cfgRes.res.val = fromEnv.val

\* The names under which tool handlers are registered
ToolNames ==
  registerNewsTools(registerTradingTools(registerAccountTools(
    registerOrderbookTools(registerMarketTools({})), 1), TRUE))

\* The invocation in the call slot is one of a tool handler that has ended
HandlerEnded == call.tool \in ToolNames /\ call.status \notin {"idle", "running"}

\* The exceptions raised in invocation c outside the tick-size lookup of
\* place_order, whose own catch absorbs them
Unabsorbed(c) == SelectSeq(c.raised, LAMBDA x : x[1] # "getMarket")

\* C14 as stated: whenever an exception was raised at any step of a tool
\* handler's execution, the handler returns an envelope with the error flag
\* set whose text carries that exception's message; no handler lets an
\* exception escape.
C14_EveryExceptionBecomesEnvelope ==
  /\ call.tool \in ToolNames => call.status # "escaped"
  /\ (HandlerEnded /\ call.raised # <<>>) =>
       /\ call.status = "returned"
       /\ call.isError
       /\ call.msg = call.raised[Len(call.raised)][2]

\* C14 (amended): no exception escapes a tool handler, and an exception
\* raised at any step other than place_order's tick-size lookup ends the
\* handler at once with an error envelope whose text carries that exception's
\* message; a failure of the tick-size lookup is absorbed by the lookup's own
\* catch and the handler carries on.
C14_UnabsorbedExceptionBecomesEnvelope ==
  /\ call.tool \in ToolNames =>
       /\ call.status \in {"idle", "running", "returned"}
       /\ Len(Unabsorbed(call)) <= 1
       /\ call.status = "running" => Unabsorbed(call) = <<>>
  /\ (HandlerEnded /\ Unabsorbed(call) # <<>>) =>
       /\ call.status = "returned"
       /\ call.isError
       /\ call.msg = Unabsorbed(call)[1][2]
       /\ Unabsorbed(call)[1][1] = call.trace[Len(call.trace)]

\* place_order ended in an error envelope for a failed order submission after
\* its tick-size lookup had failed and been absorbed
C14_Witness ==
  /\ HandlerEnded
  /\ call.tool = "polymarket_place_order"
  /\ call.raised = <<<<"getMarket", "UpstreamError">>, <<"postOrder", "UpstreamError">>>>
  /\ call.isError /\ call.msg = "UpstreamError"

\* The string argument v is supplied and empty
EmptyString(v) == v = <<>>

\* The decimal string v reads as a number that is zero or negative
NonPositive(v) ==
  v # Absent /\ ParseFloat(v).kind = "num" /\ ParseFloat(v).n <= 0

\* The decimal string v reads as a number that is 1 or more
AtLeastOne(v) ==
  v # Absent /\ ParseFloat(v).kind = "num" /\ ParseFloat(v).n >= Pow10(FracDigits)

\* The number x is supplied and lies outside lo..hi
OutOfRange(x, lo, hi) == x.kind = "num" /\ (x.n < lo \/ x.n > hi)

\* The arguments of invocation c are malformed for its tool: an empty token
\* id, a price <= 0 or >= 1, a non-positive size or amount, a limit below 1
\* or above the maximum the tool declares, a negative offset, an empty order
\* id or query
Malformed(c, rev) ==
  CASE c.tool = "polymarket_place_order" ->
         \/ EmptyString(c.args.token_id)
         \/ NonPositive(c.args.price) \/ AtLeastOne(c.args.price)
         \/ NonPositive(c.args.size)
    [] c.tool = "polymarket_place_market_order" ->
         EmptyString(c.args.token_id) \/ NonPositive(c.args.amount)
    [] c.tool = "polymarket_cancel_order" -> EmptyString(c.args.order_id)
    [] c.tool = "polymarket_get_orderbook" -> EmptyString(c.args.token_id)
    [] c.tool = "polymarket_get_trades" -> OutOfRange(c.args.limit, 1, 100)
    [] c.tool = "polymarket_get_markets" ->
         \/ OutOfRange(c.args.limit, 1, 100)
         \/ c.args.offset.kind = "num" /\ c.args.offset.n < 0
    [] c.tool = "polymarket_get_positions" ->
         rev = 1 /\ OutOfRange(c.args.limit, 1, 500)
    [] c.tool = "polymarket_get_news" ->
         EmptyString(c.args.query) \/ OutOfRange(c.args.limit, 1, 10)
    [] OTHER -> FALSE

\* C15: an invocation with malformed arguments has, from the moment the
\* handler is entered, returned an error envelope, and no upstream call was
\* made in it.
C15_MalformedInputRejected ==
  Malformed(call, accountRev) =>
    /\ call.status = "returned"
    /\ call.isError
    /\ call.msg \in {"ValidationError", "ReadonlyModeViolation"}
    /\ \A k \in 1..Len(call.trace) : call.trace[k] \notin AwaitSteps

\* place_order was invoked with a price of 1 on a writable, initialized
\* wrapper and returned the validation error
C15_Witness ==
  /\ call.tool = "polymarket_place_order"
  /\ call.args.price = <<"1">> /\ call.args.token_id = <<"t">>
  /\ call.args.size = <<"1">>
  /\ ~Cfg.readonly /\ Handle # <<>>
  /\ call.status = "returned" /\ call.isError /\ call.msg = "ValidationError"
  /\ call.trace = <<"ensureWriteAccess", "parse">>

\* The invocation in the call slot is a polymarket_get_market call that has
\* returned after its lookup by condition id got the given answer
MarketLookupAnswered(reply) ==
  /\ call.tool = "polymarket_get_market" /\ call.status = "returned"
  /\ call.trace[Len(call.trace)] = "fetchMarketById"
  /\ call.replies = <<reply>>

\* C16 as stated: when the single-market lookup answers 404,
\* polymarket_get_market returns a result without the error flag that
\* contains the requested identifier; when it answers 500 the tool returns an
\* error envelope containing the status text.
C16_NotFoundIsNonError ==
  /\ MarketLookupAnswered("notfound") =>
       ~call.isError /\ call.val = <<call.args.condition_id>>
  /\ MarketLookupAnswered("status500") =>
       call.isError /\ call.val = <<"Internal Server Error">>

\* C16 (amended): when the single-market lookup answers 404 no exception is
\* raised and polymarket_get_market returns a "not found" envelope that
\* contains the requested identifier and has the error flag set; when the
\* lookup answers 500 the tool returns, through its catch, an error envelope
\* containing the status text.
C16_NotFoundIsErrorEnvelope ==
  /\ MarketLookupAnswered("notfound") =>
       /\ call.isError /\ call.msg = "NotFound"
       /\ call.val = <<call.args.condition_id>>
       /\ call.raised = <<>>
  /\ MarketLookupAnswered("status500") =>
       /\ call.isError /\ call.msg = "HttpError"
       /\ call.val = <<"Internal Server Error">>
       /\ call.raised = <<<<"fetchMarketById", "HttpError">>>>

\* A lookup by condition id was answered 404 and the handler has returned
C16_Witness ==
  /\ MarketLookupAnswered("notfound")
  /\ call.args.condition_id = <<"c">>
  /\ call.val = <<<<"c">>>>

\* The string argument v is absent or empty
Missing(v) == v = Absent \/ v = <<>>

\* The string argument v is supplied and not empty
Supplied(v) == ~Missing(v)

\* C17: polymarket_get_market requires an identifier.  With condition_id,
\* slug and url all absent or empty the handler returns an error envelope and
\* makes no upstream call; with a condition id and a slug (directly or through
\* a url) both supplied it issues the lookup by condition id only, once, and
\* never the lookup by slug, whatever the first lookup answers.
C17_IdentifierRequired ==
  (call.tool = "polymarket_get_market" /\ call.status # "idle") =>
    /\ (Missing(call.args.condition_id) /\ Missing(call.args.slug)
        /\ Missing(call.args.url)) =>
         /\ call.status = "returned" /\ call.isError
         /\ call.msg = "MissingIdentifier"
         /\ call.trace = <<"parse", "requireId">>
         /\ call.replies = <<>>
    /\ (Supplied(call.args.condition_id)
        /\ (Supplied(call.args.slug) \/ Supplied(call.args.url))) =>
         /\ call.trace = <<"parse", "requireId", "fetchMarketById">>
         /\ Len(call.replies) <= 1
         /\ call.status = "returned" <=> Len(call.replies) = 1

\* A call with a condition id and a slug returned "not found" after the
\* lookup by condition id found nothing
C17_Witness ==
  /\ call.tool = "polymarket_get_market" /\ call.status = "returned"
  /\ call.args.condition_id = <<"c">> /\ call.args.slug = <<"s">>
  /\ call.replies = <<"notfound">>
  /\ call.trace = <<"parse", "requireId", "fetchMarketById">>

\* The latest call applied ensureArray / formatMarket and has returned
EnsureArrayReturned == call.tool = "ensureArray" /\ call.status = "returned"
FormatMarketReturned == call.tool = "formatMarket" /\ call.status = "returned"

\* C18: ensureArray never fails; it yields the array itself for an array, the
\* decoded array for a string that is the JSON text of an array (with or
\* without blanks between its tokens), and the empty list for every other
\* input: undefined, null, a number, an object, an unparsable string, a
\* string encoding a JSON value that is not an array.
C18_EnsureArray ==
  EnsureArrayReturned =>
    LET val == call.args.val
        out == call.val[1]
    IN  /\ ~call.isError /\ call.raised = <<>>
        /\ val.t = "array" => out = val.items
        /\ \A a \in OutcomeLists : val = JStr(JsonText(a)) => out = a
        /\ val = JStr(<<" ", "[", " ", "]", " ">>) => out = <<>>
        /\ val = JStr(<<"[", " ", "\"", "a", "\"", " ", ",", "\"", "b", "\"", "]">>)
             => out = <<JStr(<<"a">>), JStr(<<"b">>)>>
        /\ val.t \notin {"array", "string"} => out = <<>>
        /\ (val.t = "string" /\ val.s \in OtherTexts) => out = <<>>

\* ensureArray decoded the JSON text of a two-element array whose second
\* element holds a quote and a backslash
C18_Witness ==
  /\ EnsureArrayReturned
  /\ call.args.val.t = "string"
  /\ call.val[1] = <<JStr(<<"U", "p">>), JStr(<<"\"", "D", "\\">>)>>

\* The outcome names a formatted record lists, read off the upstream record
OutcomesUsed(market) ==
  IF ensureArray(market.outcomes) # <<>> THEN ensureArray(market.outcomes)
  ELSE <<JStr(<<"Y", "e", "s">>), JStr(<<"N", "o">>)>>

\* C19: the formatted token list has exactly one entry per outcome used (the
\* upstream outcomes when there are any, else "Yes" and "No"); entry i names
\* outcome i and carries upstream token id i, or the empty string when the
\* upstream token-id list is shorter; token ids and prices past the outcome
\* count appear nowhere.
C19_TokensFollowOutcomes ==
  FormatMarketReturned =>
    LET names == OutcomesUsed(call.args)
        ids == ensureArray(call.args.clobTokenIds)
        out == call.val[1].tokens
    IN  /\ Len(out) = Len(names)
        /\ ensureArray(call.args.outcomes) = <<>> => Len(out) = 2
        /\ \A i \in 1..Len(out) :
             /\ out[i].outcome = names[i]
             /\ out[i].token_id = IF i <= Len(ids) THEN ids[i] ELSE JStr(<<>>)

\* A record with three outcomes and one token id was formatted: the second
\* and third entries carry the empty token id
C19_Witness ==
  /\ FormatMarketReturned
  /\ Len(ensureArray(call.args.outcomes)) = 3
  /\ ensureArray(call.args.clobTokenIds) = <<JStr(<<"7">>)>>
  /\ Len(call.val[1].tokens) = 3
  /\ call.val[1].tokens[1].token_id = JStr(<<"7">>)
  /\ call.val[1].tokens[3].token_id = JStr(<<>>)

\* The three array-valued fields of the record are plain arrays
PlainArrays(market) ==
  /\ market.outcomes.t = "array"
  /\ market.outcomePrices.t = "array"
  /\ market.clobTokenIds.t = "array"

\* The record with its three arrays replaced by their JSON texts
Encoded(market) ==
  [market EXCEPT !.outcomes = JStr(JsonText(@.items)),
                 !.outcomePrices = JStr(JsonText(@.items)),
                 !.clobTokenIds = JStr(JsonText(@.items))]

\* C20: formatting a record whose outcomes, prices and token ids are JSON
\* texts of arrays gives the result of formatting the record with the plain
\* arrays, and formatting the same record again gives the same result.
C20_EncodingIrrelevant ==
  FormatMarketReturned =>
    /\ PlainArrays(call.args) => formatMarket(Encoded(call.args)) = call.val[1]
    /\ \A k \in 1..Len(call.val) : call.val[k] = call.val[1]

\* A record with plain arrays, one outcome name holding a quote and a
\* backslash, was formatted twice
C20_Witness ==
  /\ FormatMarketReturned
  /\ PlainArrays(call.args)
  /\ Len(call.val) = 2
  /\ call.args.outcomes.items = <<JStr(<<"U", "p">>), JStr(<<"\"", "D", "\\">>)>>
  /\ Len(call.args.clobTokenIds.items) = 3
  /\ Encoded(call.args) # call.args

\* One side of a formatted order book against the upstream side it was made
\* from: entry for entry the same price and size in the same order, and the
\* empty list when the upstream side is missing
SideMapped(raw, out) ==
  IF raw.t = "array"
  THEN /\ Len(out) = Len(raw.items)
       /\ \A i \in 1..Len(out) :
            out[i].price = raw.items[i].price /\ out[i].size = raw.items[i].size
  ELSE out = <<>>

\* C21: the order book formatter maps the upstream bids and asks entry by
\* entry, keeping length, order, and each entry's price and size; a missing
\* bid or ask list becomes the empty list; the token id of the output is the
\* requested token id.
C21_OrderbookMapped ==
  (call.tool = "formatOrderbook" /\ call.status = "returned") =>
    LET out == call.val[1]
    IN  /\ out.token_id = call.args.tokenId
        /\ DOMAIN out = {"token_id", "bids", "asks"}
        /\ SideMapped(call.args.rawOrderbook.bids, out.bids)
        /\ SideMapped(call.args.rawOrderbook.asks, out.asks)

\* An order book with two different bids and no ask list was formatted
C21_Witness ==
  /\ call.tool = "formatOrderbook" /\ call.status = "returned"
  /\ call.args.rawOrderbook.asks = JUndefined
  /\ call.args.rawOrderbook.bids.t = "array"
  /\ Len(call.val[1].bids) = 2
  /\ call.val[1].bids[1].price # call.val[1].bids[2].price
  /\ call.val[1].asks = <<>>

\* polymarket_get_markets has returned the listing of an upstream body
MarketsListed ==
  /\ call.tool = "polymarket_get_markets" /\ call.status = "returned"
  /\ call.replies = <<"ok">>

\* C22: polymarket_get_markets with a valid limit (default 10) and offset
\* (default 0) returns one formatted entry per record of the upstream body,
\* in upstream order, whatever the limit; a body that is no array gives the
\* empty list.
C22_MarketsListedInOrder ==
  MarketsListed =>
    LET data == call.args.data
        out == call.val[1]
        query == call.val[2]
    IN  /\ ~call.isError
        /\ query.limit = IF call.args.args.limit = UndefNum THEN Num(10)
                         ELSE call.args.args.limit
        /\ query.offset = IF call.args.args.offset = UndefNum THEN Num(0)
                          ELSE call.args.args.offset
        /\ data.t # "array" => out = <<>>
        /\ data.t = "array" =>
             /\ Len(out) = Len(data.items)
             /\ \A i \in 1..Len(out) :
                  /\ out[i].condition_id = data.items[i].conditionId
                  /\ out[i] = formatMarket(data.items[i])

\* A request with limit 2 was answered with three records, the last two in
\* descending order of condition id, and all three are listed in that order
C22_Witness ==
  /\ MarketsListed
  /\ call.args.args.limit = Num(2)
  /\ call.args.data.t = "array"
  /\ Len(call.val[1]) = 3
  /\ call.val[1][1].condition_id = <<"a">>
  /\ call.val[1][2].condition_id = <<"z">>
  /\ call.val[1][3].condition_id = <<"b">>

\* s is a decimal string: digits with at most one point among them, and
\* nothing else
DecimalString(s) ==
  /\ s # <<>>
  /\ \A i \in 1..Len(s) : s[i] \in DigitChars \cup {"."}
  /\ Cardinality({i \in 1..Len(s) : s[i] = "."}) <= 1
  /\ \E i \in 1..Len(s) : s[i] \in DigitChars

\* C23: limit-order validation accepts a price only when it is a decimal
\* string whose value lies strictly between 0 and 1; "0", "1", values outside
\* the interval and every string that is not a number, those that only begin
\* with one included, are rejected.
C23_PriceStrictlyValidated ==
  (call.tool = "PlaceOrderSchema.parse" /\ call.status # "idle") =>
    (~call.isError =>
       /\ DecimalString(call.args.price)
       /\ ParseFloat(call.args.price).n > 0
       /\ ParseFloat(call.args.price).n < Pow10(FracDigits))

\* s without its leading slashes
RECURSIVE StripSlashes(_)
StripSlashes(s) ==
  IF s # <<>> /\ s[1] = "/" THEN StripSlashes(Tail(s)) ELSE s

\* C24: for an address that holds "polymarket.com/event/" followed by a
\* segment, the slug extracted is that segment, up to the next "/", "?" or
\* "#"; for any other string it is the string without its leading slashes;
\* and in polymarket_get_market a non-empty url replaces the slug supplied
\* beside it, while without a url the slug is kept.
C24_SlugFromUrl ==
  (call.tool = "extractSlugFromUrl" /\ call.status = "returned") =>
    LET url == call.args.url
        out == call.val[1]
    IN  /\ \A parts \in UrlParts : url = UrlOf(parts) => out = parts.seg
        /\ url \in BareUrls => out = StripSlashes(url)
        /\ url \in {Absent, <<>>} => out = call.args.slug

\* The slug was taken from an https address with a query behind the segment
\* although a slug was supplied as well
C24_Witness ==
  /\ call.tool = "extractSlugFromUrl" /\ call.status = "returned"
  /\ call.args.slug = <<"s">>
  /\ call.args.url = <<"h", "t", "t", "p", "s", ":", "/", "/">> \o EventPath
                       \o <<"b", "-", "1", "5", "m", "?", "x", "=", "1">>
  /\ call.val[1] = <<"b", "-", "1", "5", "m">>


\* The operations section 4.4 of the specification enumerates
EnumeratedTools ==
  {"polymarket_get_markets", "polymarket_get_market", "polymarket_get_orderbook",
   "polymarket_get_balance", "polymarket_get_positions",
   "polymarket_update_allowance", "polymarket_get_trades",
   "polymarket_place_order", "polymarket_place_market_order",
   "polymarket_cancel_order", "polymarket_get_news"}

\* C25: once the server has run registerAllTools, the tools registered with
\* the host are exactly the eleven enumerated operations in write mode, and
\* the same set without the three order tools in readonly mode.
C25_ToolSurface ==
  (mode = "server" /\ registrar = "registerAllTools") =>
    tools = (IF Cfg.readonly THEN EnumeratedTools \ WriteTools ELSE EnumeratedTools)


\* The upstream calls invocation c has issued, in order
UpstreamCalls(c) == SelectSeq(c.trace, LAMBDA s : s \in AwaitSteps)

\* The answers with which an upstream call fails: a rejection or a status
\* that is not ok
FailedReplies == {"fail"} \cup HttpStatuses

\* Every upstream operation was issued at most once in invocation c
IssuedOnce(c) ==
  \A s \in AwaitSteps : Len(SelectSeq(c.trace, LAMBDA x : x = s)) <= 1

\* The k-th upstream call of invocation c was the last one and c ended in an
\* error envelope
EndedAt(c, k) ==
  /\ k = Len(UpstreamCalls(c))
  /\ c.status = "returned" /\ c.isError

\* C26 as stated: within one handler invocation each upstream operation is
\* attempted at most once, and a failed upstream call ends the invocation in
\* an error envelope with no further upstream call issued.
C26_FailureEndsInvocation ==
  call.tool \in ToolNames =>
    /\ IssuedOnce(call)
    /\ \A k \in 1..Len(call.replies) :
         call.replies[k] \in FailedReplies => EndedAt(call, k)

\* C26 (amended): within one handler invocation each upstream operation is
\* attempted at most once; a failed upstream call other than place_order's
\* tick-size lookup ends the invocation in an error envelope with no further
\* upstream call issued, and a failed tick-size lookup is followed by the
\* signing of the order.
C26_NoRetries ==
  call.tool \in ToolNames =>
    /\ IssuedOnce(call)
    /\ Len(call.replies) <= Len(UpstreamCalls(call))
    /\ \A k \in 1..Len(call.replies) :
         call.replies[k] \in FailedReplies =>
           IF UpstreamCalls(call)[k] = "getMarket"
           THEN /\ Len(UpstreamCalls(call)) > k
                /\ UpstreamCalls(call)[k + 1] = "createOrder"
           ELSE EndedAt(call, k)

\* update_allowance ended in an error envelope when the allowance refresh
\* failed, without going on to fetch the balance
C26_Witness ==
  /\ call.tool = "polymarket_update_allowance"
  /\ call.replies = <<"fail">>
  /\ UpstreamCalls(call) = <<"updateBalanceAllowance">>
  /\ call.status = "returned" /\ call.isError


\* The upstream calls that create, submit or cancel an order
OrderCalls == {"createOrder", "createMarketOrder", "postOrder", "cancelOrder"}

\* The upstream calls that change state at the venue: the order calls and the
\* allowance refresh
StateChangingCalls == OrderCalls \cup {"updateBalanceAllowance"}

\* The upstream calls the invocation in the call slot has issued
Issued == {call.trace[k] : k \in 1..Len(call.trace)} \cap AwaitSteps

\* C27 as stated: on a readonly wrapper no invocation of a registered tool
\* issues order creation, order submission, order cancellation or the
\* allowance refresh.
C27_ReadonlyIssuesNoStateChange ==
  (wrapper # <<>> /\ Cfg.readonly /\ call.tool \in tools) =>
    Issued \cap StateChangingCalls = {}

\* C27 (amended): on a readonly wrapper no invocation of a registered tool
\* issues order creation, order submission or order cancellation; the only
\* state-changing call a readonly wrapper issues is the allowance refresh,
\* and only from polymarket_update_allowance.
C27_ReadonlyIssuesNoOrderCall ==
  (wrapper # <<>> /\ Cfg.readonly /\ call.tool \in tools) =>
    /\ Issued \cap OrderCalls = {}
    /\ "updateBalanceAllowance" \in Issued =>
         call.tool = "polymarket_update_allowance"

\* A server started readonly has refreshed the allowance and returned the
\* balance through polymarket_update_allowance
C27_Witness ==
  /\ mode = "server" /\ wrapper # <<>> /\ Cfg.readonly
  /\ call.tool = "polymarket_update_allowance"
  /\ Issued = {"updateBalanceAllowance", "getBalanceAllowance"}
  /\ call.status = "returned" /\ ~call.isError


\* The invocation in the call slot is a place_order whose tick-size lookup
\* has failed
LookupFailed ==
  /\ call.tool = "polymarket_place_order"
  /\ call.replies # <<>> /\ call.replies[1] = "fail"

\* C28: in polymarket_place_order a failed tick-size / negative-risk lookup
\* is swallowed: the handler goes on with tick size 0.01 and negative-risk
\* false to sign the order and, when the signing succeeds, to submit it, and
\* the envelope it returns is the submission's: a success envelope when the
\* signing and the submission succeed, an error envelope carrying the
\* failure's message when one of them fails.
C28_LookupFailureSwallowed ==
  LookupFailed =>
    /\ call.info = <<[tickSize |-> DefaultTickSize, negRisk |-> FALSE]>>
    /\ Len(UpstreamCalls(call)) >= 2
    /\ UpstreamCalls(call)[1] = "getMarket"
    /\ UpstreamCalls(call)[2] = "createOrder"
    /\ Len(call.replies) >= 2 /\ call.replies[2] = "ok" =>
         /\ Len(UpstreamCalls(call)) = 3
         /\ UpstreamCalls(call)[3] = "postOrder"
    /\ call.status = "running" => call.waiting
    /\ call.status = "returned" =>
         LET last == call.replies[Len(call.replies)]
         IN  /\ Len(call.replies) = Len(UpstreamCalls(call))
             /\ call.isError <=> last = "fail"
             /\ call.isError => call.msg = "UpstreamError"
             /\ ~call.isError => Len(call.replies) = 3
    /\ call.status \in {"running", "returned"}

\* place_order returned a success envelope with tick size 0.01 and
\* negative-risk false after its lookup had failed and the order had been
\* signed and submitted
C28_Witness ==
  /\ LookupFailed
  /\ call.replies = <<"fail", "ok", "ok">>
  /\ UpstreamCalls(call) = <<"getMarket", "createOrder", "postOrder">>
  /\ call.status = "returned" /\ ~call.isError
  /\ call.info[1].tickSize = DefaultTickSize


\* C29: every wrapper a getClientWrapper call hands to its caller is
\* initialized: getClient on it does not fail.
C29_HandedWrapperInitialized ==
  (call.tool = "getClientWrapper" /\ call.status = "returned") =>
    getClient(call.val[1]).res.ok


\* The payload of the open-orders revision of polymarket_get_positions has
\* been built
PositionsReturned == call.tool = "openOrderPositions" /\ call.status = "returned"

\* The first order of list orders that is for token t
FirstFor(orders, t) ==
  orders[CHOOSE i \in 1..Len(orders) :
           /\ orders[i].asset_id = t
           /\ \A j \in 1..(i - 1) : orders[j].asset_id # t]

====
